---------------------------- MODULE Spec2Model ----------------------------
(***************************************************************************)
(* A model of tw-txparser: the numeric codec (pkg/parser/block.go), the    *)
(* address store (internal/storage/memory.go) and the block scanner        *)
(* (pkg/parser/parser.go and the poller file holding Start, Stop,          *)
(* pollLoop, scanBackward, scanForward, checkForNewBlocks, processBlock).  *)
(*                                                                         *)
(* Strings are sequences of one-character strings, so that prefix          *)
(* stripping, digit parsing and formatting are computed as the code does.  *)
(***************************************************************************)
EXTENDS Integers, Sequences, FiniteSets, TLC

(***************************************************************************)
(* Bounds of the model.                                                    *)
(***************************************************************************)
\* Highest block number the ledger reports as its head.
MaxHead == 2
\* Number of coordinating tasks (successful Start calls) a behaviour may hold.
MaxGen == 2
\* Number of store calls the clients of the store specification may make.
MaxCalls == 4
\* Height of the ledger in the single-run specification.
MaxRunHead == 3
\* Width in bits of the machine integer of the model (int64 in the build):
\* ParseInt reports a range error beyond it.
IntBits == 16
\* Highest block number handed to formatBlockNum in the codec specification.
MaxBlockNum == 32767

(***************************************************************************)
(* Numeric codec: pkg/parser/block.go and formatBlockNum.                  *)
(***************************************************************************)
HexChars == <<"0","1","2","3","4","5","6","7","8","9","a","b","c","d","e","f">>
UpperHexChars == <<"0","1","2","3","4","5","6","7","8","9","A","B","C","D","E","F">>
DecChars == <<"0","1","2","3","4","5","6","7","8","9">>

IsHexChar(c) == \E i \in 1..16 : HexChars[i] = c \/ UpperHexChars[i] = c
HexVal(c) == (CHOOSE i \in 1..16 : HexChars[i] = c \/ UpperHexChars[i] = c) - 1

\* strings.TrimPrefix(s, "0x")
TrimPrefix0x(s) ==
    IF Len(s) >= 2 /\ s[1] = "0" /\ s[2] = "x" THEN SubSeq(s, 3, Len(s)) ELSE s

RECURSIVE HexDigitsValue(_, _)
\* Value of a sequence of hex digits, accumulated left to right.
HexDigitsValue(s, acc) ==
    IF s = <<>> THEN acc ELSE HexDigitsValue(Tail(s), acc * 16 + HexVal(Head(s)))

AllHex(s) == \A i \in 1..Len(s) : IsHexChar(s[i])

RECURSIVE Pow2(_)
Pow2(n) == IF n = 0 THEN 1 ELSE 2 * Pow2(n - 1)

\* The largest unsigned value of the integer width, and the least value
\* the signed type cannot hold.
MaxUint == Pow2(IntBits) - 1
IntCutoff == Pow2(IntBits - 1)

RECURSIVE ParseUint16(_, _)
\* strconv.ParseUint(s, 16, bits), its loop over the characters of s with n
\* accumulated so far: a character that is no digit is a syntax error with
\* value 0; when n has reached the cutoff, before the remaining characters
\* are looked at, it is a range error with the largest value.
ParseUint16(s, n) ==
    IF s = <<>> THEN [val |-> n, err |-> "nil"]
    ELSE IF ~IsHexChar(Head(s)) THEN [val |-> 0, err |-> "syntax"]
    ELSE IF n >= MaxUint \div 16 + 1 THEN [val |-> MaxUint, err |-> "range"]
    ELSE IF n * 16 + HexVal(Head(s)) > MaxUint THEN [val |-> MaxUint, err |-> "range"]
    ELSE ParseUint16(Tail(s), n * 16 + HexVal(Head(s)))

\* strconv.ParseInt(s, 16, bits): an optional sign, then ParseUint on one or
\* more digits; a syntax error gives value 0, a value out of range gives the
\* nearest value of the type together with a range error.
ParseInt16(s) ==
    LET signed == Len(s) >= 1 /\ s[1] \in {"+", "-"}
        neg == signed /\ s[1] = "-"
        digits == IF signed THEN Tail(s) ELSE s
        un == ParseUint16(digits, 0)
    IN  IF digits = <<>> \/ un.err = "syntax" THEN [val |-> 0, err |-> TRUE]
        ELSE IF ~neg /\ un.val >= IntCutoff THEN [val |-> IntCutoff - 1, err |-> TRUE]
        ELSE IF neg /\ un.val > IntCutoff THEN [val |-> 0 - IntCutoff, err |-> TRUE]
        ELSE [val |-> IF neg THEN 0 - un.val ELSE un.val, err |-> FALSE]

\* A variant of hexToInt that does not strip the 0x prefix.
hexToIntNoTrim(hexStr) == ParseInt16(hexStr).val

\* hexToInt: the error of ParseInt is dropped, its value is returned.
hexToInt(hexStr) == ParseInt16(TrimPrefix0x(hexStr)).val

RECURSIVE FormatHex(_)
\* strconv.FormatInt(n, 16) for n >= 0: lowercase, no leading zeros, "0" for 0.
FormatHex(n) ==
    IF n < 16 THEN <<HexChars[n + 1]>>
    ELSE FormatHex(n \div 16) \o <<HexChars[(n % 16) + 1]>>

\* formatBlockNum: "0x" + strconv.FormatInt(int64(num), 16)
formatBlockNum(num) ==
    IF num < 0 THEN <<"0", "x", "-">> \o FormatHex(0 - num)
    ELSE <<"0", "x">> \o FormatHex(num)

RECURSIVE MulAddRev(_, _, _)
\* An unbounded number held as limbs of four decimal digits, least
\* significant limb first, times m plus carry.
MulAddRev(ds, m, carry) ==
    IF ds = <<>>
    THEN IF carry = 0 THEN <<>>
         ELSE <<carry % 10000>> \o MulAddRev(<<>>, m, carry \div 10000)
    ELSE LET v == Head(ds) * m + carry
         IN  <<v % 10000>> \o MulAddRev(Tail(ds), m, v \div 10000)

RECURSIVE HexToDecRev(_, _)
\* big.Int.SetString(hi, 16): the hex digits folded from the left into an
\* unbounded number, up to four digits at a step.
HexToDecRev(hs, acc) ==
    IF hs = <<>> THEN acc
    ELSE LET n == IF Len(hs) % 4 = 0 THEN 4 ELSE Len(hs) % 4
             m == CASE n = 1 -> 16 [] n = 2 -> 256 [] n = 3 -> 4096 [] OTHER -> 65536
             next == MulAddRev(acc, m, HexDigitsValue(SubSeq(hs, 1, n), 0))
         IN  IF Len(next) >= 0
             THEN HexToDecRev(SubSeq(hs, n + 1, Len(hs)), next)
             ELSE <<>>

\* big.Int.String() of a number held as limbs: decimal digits, most
\* significant first, no leading zeros, "0" for zero.
DecString(rev) ==
    IF rev = <<>> THEN <<"0">>
    ELSE LET top == rev[Len(rev)]
             nt == IF top >= 1000 THEN 4 ELSE IF top >= 100 THEN 3
                   ELSE IF top >= 10 THEN 2 ELSE 1
             total == 4 * (Len(rev) - 1) + nt
         IN  [i \in 1..total |->
                LET p == total - i
                    limb == rev[(p \div 4) + 1]
                    unit == CASE p % 4 = 0 -> 1 [] p % 4 = 1 -> 10
                              [] p % 4 = 2 -> 100 [] OTHER -> 1000
                IN  DecChars[((limb \div unit) % 10) + 1]]

\* The number of hex digits hexToBigIntString keeps (256 bits).
MaxValueHexDigits == 64

\* A variant of hexToBigIntString that hands the whole string to SetString,
\* without keeping only the least-significant 64 digits.
hexToBigIntStringUncut(h) ==
    LET hi == TrimPrefix0x(h)
        signed == Len(hi) >= 1 /\ hi[1] \in {"+", "-"}
        digits == IF signed THEN Tail(hi) ELSE hi
        mag == DecString(HexToDecRev(digits, <<>>))
    IN  IF hi = <<>> THEN <<"0">>
        ELSE IF digits = <<>> \/ ~AllHex(digits) THEN <<"0">>
        ELSE IF signed /\ hi[1] = "-" /\ mag # <<"0">> THEN <<"-">> \o mag
        ELSE mag

\* hexToBigIntString: strip the prefix, "0" for the empty string, keep the
\* least-significant 64 digits, "0" when big.Int.SetString refuses the rest.
hexToBigIntString(h) ==
    LET hi == TrimPrefix0x(h)
        cut == IF Len(hi) > MaxValueHexDigits
               THEN SubSeq(hi, Len(hi) - MaxValueHexDigits + 1, Len(hi))
               ELSE hi
        signed == Len(cut) >= 1 /\ cut[1] \in {"+", "-"}
        digits == IF signed THEN Tail(cut) ELSE cut
        mag == DecString(HexToDecRev(digits, <<>>))
    IN  IF hi = <<>> THEN <<"0">>
        ELSE IF digits = <<>> \/ ~AllHex(digits) THEN <<"0">>
        ELSE IF signed /\ cut[1] = "-" /\ mag # <<"0">> THEN <<"-">> \o mag
        ELSE mag

RECURSIVE HexDecodeString(_)
\* encoding/hex.DecodeString(s): the bytes of the pairs of hex digits decoded
\* before the first pair with a character that is no hex digit, or before a
\* last character without a partner, either of which is an error.
HexDecodeString(s) ==
    IF s = <<>> THEN [bytes |-> <<>>, err |-> FALSE]
    ELSE IF Len(s) = 1 THEN [bytes |-> <<>>, err |-> TRUE]
    ELSE IF ~IsHexChar(s[1]) \/ ~IsHexChar(s[2]) THEN [bytes |-> <<>>, err |-> TRUE]
    ELSE LET rest == HexDecodeString(SubSeq(s, 3, Len(s)))
         IN  [bytes |-> <<HexVal(s[1]) * 16 + HexVal(s[2])>> \o rest.bytes,
              err |-> rest.err]

\* A variant of decodeHex that does not pad a string of odd length.
decodeHexUnpadded(hexStr) ==
    LET trimmed == TrimPrefix0x(hexStr)
        decoded == HexDecodeString(trimmed)
    IN  IF trimmed = <<>> THEN [val |-> 0, err |-> TRUE]
        ELSE IF decoded.err THEN [val |-> 0, err |-> TRUE]
        ELSE IF Len(decoded.bytes) = 0 THEN [val |-> 0, err |-> FALSE]
        ELSE [val |-> decoded.bytes[1], err |-> FALSE]

\* decodeHex: strip the prefix; the empty string is an error; a string of odd
\* length gets a "0" in front; an error of hex.DecodeString is returned with
\* value 0; otherwise the first byte.
decodeHex(hexStr) ==
    LET trimmed == TrimPrefix0x(hexStr)
        padded == IF Len(trimmed) % 2 = 1 THEN <<"0">> \o trimmed ELSE trimmed
        decoded == HexDecodeString(padded)
    IN  IF trimmed = <<>> THEN [val |-> 0, err |-> TRUE]
        ELSE IF decoded.err THEN [val |-> 0, err |-> TRUE]
        ELSE IF Len(decoded.bytes) = 0 THEN [val |-> 0, err |-> FALSE]
        ELSE [val |-> decoded.bytes[1], err |-> FALSE]

(***************************************************************************)
(* Threads, addresses and the state of the program.                        *)
(***************************************************************************)
\* Callers of the store's operations in the store specification.
Clients == {<<"client", 1>>, <<"client", 2>>, <<"client", 3>>}
Gens == 1..MaxGen
\* The goroutines of the scanner: pollLoop and scanBackward of each Start.
PollTasks == {<<"poll", g>> : g \in Gens}
BackTasks == {<<"back", g>> : g \in Gens}
Tasks == PollTasks \cup BackTasks
Threads == Clients \cup Tasks
NoThread == <<"none", 0>>

Addrs == {"A", "B", "C"}

\* transaction.Transaction
Record(hash, from, to, value, block, inbound) ==
    [Hash |-> hash, From |-> from, To |-> to, Value |-> value,
     Block |-> block, Inbound |-> inbound]

VARIABLES
    \* MemoryStorage
    subs,       \* the addresses a with subs[a] = true
    txs,        \* address -> the list of its records
    mu,         \* the holder of MemoryStorage.mu, or NoThread
    tmp,        \* thread -> what its store call read after taking mu
    \* callers of the store
    cl,         \* client -> its call in progress and its last result
    nCalls,     \* store calls made so far
    subTrue,    \* address -> Subscribe calls that returned true
    subFalse,   \* address -> Subscribe calls that returned false
    subCalled,  \* addresses with a Subscribe call begun
    subReturned,\* addresses with a Subscribe call returned
    added,      \* address -> records of the completed AddTransaction calls
    \* parserImpl
    block,              \* p.block, the ledger cursor
    pollingStarted,     \* p.pollingStarted
    pollingStartedMu,   \* the holder of p.pollingStartedMu, or NoThread
    wg,                 \* the counter of p.wg
    backwardScanEnabled,
    backwardScanDepth,
    \* the scanner's goroutines and its callers
    task,       \* task -> its position and locals
    ctxOf,      \* generation -> the context its Start was given, or "none"
    cancelled,  \* the contexts whose cancel function was called
    st,         \* caller of Start -> its call in progress
    stopPc,     \* the caller of Stop: idle, waiting (in wg.Wait) or returned
    stopSaw,    \* the generations spawned when Stop returned
    \* the surroundings of the scanner
    chainHead,  \* the height of the ledger: no node answers a higher head
    opts,       \* the Options the scanner was constructed with
    fwdFailed,  \* the block numbers whose processBlock failed in a forward batch
    gcb,        \* the caller of GetCurrentBlock: its position and last result
    codec       \* a caller of the codec: its input, the functions applied, the value

storeVars == <<subs, txs, mu, tmp>>
clientVars == <<cl, nCalls, subTrue, subFalse, subCalled, subReturned, added>>
parserVars == <<block, pollingStarted, pollingStartedMu, wg,
                backwardScanEnabled, backwardScanDepth>>
runVars == <<task, ctxOf, cancelled, st, stopPc, stopSaw>>
envVars == <<chainHead, opts, fwdFailed, gcb, codec>>
vars == <<storeVars, clientVars, parserVars, runVars, envVars>>

(***************************************************************************)
(* MemoryStorage: internal/storage/memory.go.  Each operation takes mu,    *)
(* runs its body and releases mu on return (defer).  A call is two steps:  *)
(* Enter takes the lock and does the body's first read, Leave does the     *)
(* rest of the body and unlocks; a thread is in Leave only after its Enter. *)
(***************************************************************************)
\* sync.Mutex.Lock proceeds only when nobody holds the mutex.
LockFreeBroken(m) == TRUE
LockFree(m) == m = NoThread

\* NewMemoryStorage
StoreInit ==
    /\ subs = {}
    /\ txs = [a \in Addrs |-> <<>>]
    /\ mu = NoThread
    /\ tmp = [t \in Threads |-> <<>>]

\* m.mu.Lock(); the read of m.subs[address]
SubscribeEnter(t, address) ==
    /\ LockFree(mu)
    /\ mu' = t
    /\ tmp' = [tmp EXCEPT ![t] = (address \in subs)]
    /\ UNCHANGED <<subs, txs>>

\* if m.subs[address] { return false }; m.subs[address] = true; return true
SubscribeResult(t) == ~tmp[t]
SubscribeLeave(t, address) ==
    /\ subs' = IF tmp[t] THEN subs ELSE subs \cup {address}
    /\ mu' = NoThread
    /\ tmp' = [tmp EXCEPT ![t] = <<>>]
    /\ UNCHANGED txs

\* m.mu.Lock(); the read of m.txs[addr]
AddTransactionEnter(t, addr) ==
    /\ LockFree(mu)
    /\ mu' = t
    /\ tmp' = [tmp EXCEPT ![t] = txs[addr]]
    /\ UNCHANGED <<subs, txs>>

\* m.txs[addr] = append(m.txs[addr], tx)
AddTransactionLeaveIfSubscribed(t, addr, tx) ==
    /\ txs' = IF addr \in subs THEN [txs EXCEPT ![addr] = Append(tmp[t], tx)] ELSE txs
    /\ mu' = NoThread
    /\ tmp' = [tmp EXCEPT ![t] = <<>>]
    /\ UNCHANGED subs
AddTransactionLeavePrepending(t, addr, tx) ==
    /\ txs' = [txs EXCEPT ![addr] = <<tx>> \o tmp[t]]
    /\ mu' = NoThread
    /\ tmp' = [tmp EXCEPT ![t] = <<>>]
    /\ UNCHANGED subs
AddTransactionLeave(t, addr, tx) ==
    /\ txs' = [txs EXCEPT ![addr] = Append(tmp[t], tx)]
    /\ mu' = NoThread
    /\ tmp' = [tmp EXCEPT ![t] = <<>>]
    /\ UNCHANGED subs

\* A variant of AddTransaction that puts the record at the front of the list.
AddTransactionAtFront(addr, tx) ==
    /\ LockFree(mu)
    /\ txs' = [txs EXCEPT ![addr] = <<tx>> \o txs[addr]]
    /\ UNCHANGED <<subs, mu, tmp>>

\* A variant of AddTransaction that files the record by block number: after
\* the records of blocks up to its own, before those of higher blocks.
AddTransactionInBlockOrder(addr, tx) ==
    /\ LockFree(mu)
    /\ txs' = [txs EXCEPT ![addr] =
                  SelectSeq(txs[addr], LAMBDA r : r.Block <= tx.Block)
                  \o <<tx>>
                  \o SelectSeq(txs[addr], LAMBDA r : r.Block > tx.Block)]
    /\ UNCHANGED <<subs, mu, tmp>>

\* AddTransaction, the whole call by a caller that does nothing else
\* meanwhile: Lock(), the append, Unlock().
AddTransaction(addr, tx) ==
    /\ LockFree(mu)
    /\ txs' = [txs EXCEPT ![addr] = Append(txs[addr], tx)]
    /\ UNCHANGED <<subs, mu, tmp>>

\* m.mu.Lock(); the read of m.subs[addr]
GetTransactionsEnter(t, addr) ==
    /\ LockFree(mu)
    /\ mu' = t
    /\ tmp' = [tmp EXCEPT ![t] = (addr \in subs)]
    /\ UNCHANGED <<subs, txs>>

\* if !m.subs[addr] { return []transaction.Transaction{} }; return m.txs[addr]
GetTransactionsUngated(subscribed, list) == list
GetTransactionsResult(subscribed, list) == IF ~subscribed THEN <<>> ELSE list
GetTransactionsLeave(t, addr) ==
    /\ mu' = NoThread
    /\ tmp' = [tmp EXCEPT ![t] = <<>>]
    /\ UNCHANGED <<subs, txs>>

\* IsSubscribed: m.mu.Lock(); return m.subs[addr]
IsSubscribedEnter(t, addr) ==
    /\ LockFree(mu)
    /\ mu' = t
    /\ tmp' = [tmp EXCEPT ![t] = (addr \in subs)]
    /\ UNCHANGED <<subs, txs>>

IsSubscribedLeave(t, addr) ==
    /\ mu' = NoThread
    /\ tmp' = [tmp EXCEPT ![t] = <<>>]
    /\ UNCHANGED <<subs, txs>>

(***************************************************************************)
(* The store specification: clients call the four operations of one store  *)
(* concurrently.                                                           *)
(***************************************************************************)
\* The addresses the clients name.
ClientAddrs == {"A", "B"}
\* The record client c adds for address a: every client adds its own.
ClientTx(c, a) == Record("h", "C", a, <<"1">>, c[2], TRUE)

\* A call: op, phase (idle, lock, body, ret), its arguments and result, and
\* what was known when it began (subRet: a Subscribe of addr had returned;
\* pre: the records added for addr) and when it returned (unsub: no
\* Subscribe of addr had begun).
IdleCall ==
    [op |-> "none", phase |-> "idle", addr |-> "A", tx |-> <<>>, ret |-> <<>>,
     subRet |-> FALSE, pre |-> <<>>, unsub |-> FALSE]

ClientInit ==
    /\ cl = [c \in Clients |-> IdleCall]
    /\ nCalls = 0
    /\ subTrue = [a \in Addrs |-> 0]
    /\ subFalse = [a \in Addrs |-> 0]
    /\ subCalled = {}
    /\ subReturned = {}
    /\ added = [a \in Addrs |-> <<>>]

\* A client begins a call: store.Subscribe(a), store.AddTransaction(a, tx),
\* store.GetTransactions(a) or store.IsSubscribed(a).
ClientCall(c) ==
    /\ cl[c].phase \in {"idle", "ret"}
    /\ nCalls < MaxCalls
    /\ \E a \in ClientAddrs, op \in {"sub", "add", "get", "is"} :
         /\ cl' = [cl EXCEPT ![c] =
                     [op |-> op, phase |-> "lock", addr |-> a,
                      tx |-> IF op = "add" THEN ClientTx(c, a) ELSE <<>>,
                      ret |-> <<>>, subRet |-> (a \in subReturned),
                      pre |-> added[a], unsub |-> FALSE]]
         /\ subCalled' = IF op = "sub" THEN subCalled \cup {a} ELSE subCalled
    /\ nCalls' = nCalls + 1
    /\ UNCHANGED <<storeVars, subTrue, subFalse, subReturned, added>>

ClientEnter(c) ==
    /\ cl[c].phase = "lock"
    /\ \/ cl[c].op = "sub" /\ SubscribeEnter(c, cl[c].addr)
       \/ cl[c].op = "add" /\ AddTransactionEnter(c, cl[c].addr)
       \/ cl[c].op = "get" /\ GetTransactionsEnter(c, cl[c].addr)
       \/ cl[c].op = "is" /\ IsSubscribedEnter(c, cl[c].addr)
    /\ cl' = [cl EXCEPT ![c].phase = "body"]
    /\ UNCHANGED <<nCalls, subTrue, subFalse, subCalled, subReturned, added>>

ClientSubscribeReturn(c) ==
    /\ cl[c].phase = "body" /\ cl[c].op = "sub"
    /\ SubscribeLeave(c, cl[c].addr)
    /\ cl' = [cl EXCEPT ![c].phase = "ret", ![c].ret = SubscribeResult(c)]
    /\ subTrue' = IF SubscribeResult(c)
                  THEN [subTrue EXCEPT ![cl[c].addr] = @ + 1] ELSE subTrue
    /\ subFalse' = IF SubscribeResult(c)
                   THEN subFalse ELSE [subFalse EXCEPT ![cl[c].addr] = @ + 1]
    /\ subReturned' = subReturned \cup {cl[c].addr}
    /\ UNCHANGED <<nCalls, subCalled, added>>

ClientAddTransactionReturn(c) ==
    /\ cl[c].phase = "body" /\ cl[c].op = "add"
    /\ AddTransactionLeave(c, cl[c].addr, cl[c].tx)
    /\ cl' = [cl EXCEPT ![c].phase = "ret"]
    /\ added' = [added EXCEPT ![cl[c].addr] = Append(@, cl[c].tx)]
    /\ UNCHANGED <<nCalls, subTrue, subFalse, subCalled, subReturned>>

ClientGetTransactionsReturn(c) ==
    /\ cl[c].phase = "body" /\ cl[c].op = "get"
    /\ GetTransactionsLeave(c, cl[c].addr)
    /\ cl' = [cl EXCEPT ![c].phase = "ret",
                        ![c].ret = GetTransactionsResult(tmp[c], txs[cl[c].addr]),
                        ![c].unsub = (cl[c].addr \notin subCalled)]
    /\ UNCHANGED <<nCalls, subTrue, subFalse, subCalled, subReturned, added>>

ClientIsSubscribedReturn(c) ==
    /\ cl[c].phase = "body" /\ cl[c].op = "is"
    /\ IsSubscribedLeave(c, cl[c].addr)
    /\ cl' = [cl EXCEPT ![c].phase = "ret", ![c].ret = tmp[c]]
    /\ UNCHANGED <<nCalls, subTrue, subFalse, subCalled, subReturned, added>>

(***************************************************************************)
(* The ledger behind the RPC client (pkg/rpc): eth_blockNumber answers a   *)
(* head as a hex string, eth_getBlockByNumber answers the block whose      *)
(* number its first parameter encodes.  Any call may fail.                 *)
(***************************************************************************)
\* rpc.Transaction
Tx(hash, from, to, value) == [Hash |-> hash, From |-> from, To |-> to, Value |-> value]

\* The transactions of block n: block 0 is empty, block 1 holds one transfer,
\* block 3 a transfer and the transfer back, every other block holds a
\* transfer of an address to itself with an unprefixed value followed by a
\* transfer whose value has no digits.
Chain(n) ==
    CASE n = 0 -> <<>>
      [] n = 1 -> <<Tx("h1", "A", "B", <<"0","x","1","0","0","0">>)>>
      [] n = 3 -> <<Tx("h4", "A", "B", <<"0","x","1","0","0","0">>),
                    Tx("h5", "B", "A", <<"f","f">>)>>
      [] OTHER -> <<Tx("h2", "B", "B", <<"f","f">>),
                    Tx("h3", "C", "A", <<"0","x">>)>>

\* Whether a call of the RPC client fails: any call may, and one made under
\* a cancelled context does (http.NewRequestWithContext, httpClient.Do).
RpcFailures(ctxCancelled) == IF ctxCancelled THEN {TRUE} ELSE BOOLEAN

\* The block numbers of the ledgers considered, and what eth_blockNumber may
\* answer: the encoding of a head, or garbage.
BlockNumbers == 0..(IF MaxRunHead > MaxHead THEN MaxRunHead ELSE MaxHead)
HeadResponses == {formatBlockNum(n) : n \in BlockNumbers} \cup {<<"0","x","z">>}

\* The block eth_getBlockByNumber(blockNumberHex, true) answers.
BlockByNumber(blockNumberHex) == Chain(hexToInt(blockNumberHex))

\* The codec's results on the strings that cross the RPC boundary, tabulated
\* once: hexToInt of each head response, the answer to the request for block
\* formatBlockNum(n), hexToBigIntString of each transaction value.
ChainValues == UNION {{Chain(n)[k].Value : k \in 1..Len(Chain(n))} : n \in BlockNumbers}
HeadOf == [blockHex \in HeadResponses |-> hexToInt(blockHex)]
FetchedBlock == [n \in BlockNumbers |-> BlockByNumber(formatBlockNum(n))]
DecimalValue == [value \in ChainValues |-> hexToBigIntString(value)]

\* What eth_blockNumber may answer on a ledger of the given height: the head
\* of a node that has caught up or lags behind, or garbage.
HeadResponsesUpTo(height) == {blockHex \in HeadResponses : HeadOf[blockHex] <= height}

(***************************************************************************)
(* The block scanner: parserImpl.                                          *)
(***************************************************************************)
Ctxs == {"ctx1", "ctx2"}
CtxOf(t) == ctxOf[t[2]]
StartCallers == {<<"start", 1>>, <<"start", 2>>}

\* The Options handed to NewParserWithInterval: the zero value, and a
\* backward scan of depth 1.
OptionValues == {[BackwardScanEnabled |-> FALSE, BackwardScanDepth |-> 0],
                 [BackwardScanEnabled |-> TRUE, BackwardScanDepth |-> 1]}
DefaultBackwardScanDepth == 10000

\* A goroutine of the scanner.  pc "none": not spawned; "exited": returned.
\* latest, i, stopAt: the locals latestBlock, i and stopAt; site, num, blk, k,
\* res: the processBlock call in progress or last returned (its caller, its
\* block number, the fetched transactions, the index of the transaction being
\* stored, its result); log: the records that call appended, as they stand
\* in the store; batch: the block numbers the current forward tick, or the
\* backward scan, has attempted.  A backward scan keeps in latest the head its
\* range was computed from.  A coordinating task whose first head fetch
\* failed has res "fatal" from then on.
NoTask ==
    [pc |-> "none", latest |-> 0, i |-> 0, stopAt |-> 0,
     site |-> "none", num |-> 0, blk |-> <<>>, k |-> 0, res |-> "none",
     log |-> <<>>, batch |-> <<>>]
ExitedTask == [NoTask EXCEPT !.pc = "exited"]

PollOf(g) == <<"poll", g>>
BackOf(g) == <<"back", g>>
Spawned == {g \in Gens : task[PollOf(g)].pc # "none"}
NextGen == Cardinality(Spawned) + 1
Alive(t) == task[t].pc \notin {"none", "exited"}

\* NewParserWithInterval(c, s, interval, opts)
NewParserWithInterval(options) ==
    /\ block = 0
    /\ pollingStarted = FALSE
    /\ pollingStartedMu = NoThread
    /\ wg = 0
    /\ backwardScanEnabled = (IF ~options.BackwardScanEnabled THEN FALSE ELSE TRUE)
    /\ backwardScanDepth = (IF options.BackwardScanDepth <= 0
                            THEN DefaultBackwardScanDepth
                            ELSE options.BackwardScanDepth)

RunInit ==
    /\ task = [t \in Tasks |-> NoTask]
    /\ ctxOf = [g \in Gens |-> "none"]
    /\ cancelled = {}
    /\ st = [s \in StartCallers |-> [phase |-> "idle", saw |-> FALSE]]
    /\ stopPc = "idle"
    /\ stopSaw = {}

\* The caller of the codec: kind says whether its input is a string (inStr)
\* or a number (inNum); fns lists the functions applied so far, str and num
\* hold the latest string and the latest number, err whether the latest
\* function returned an error.
NoCodecCall ==
    [kind |-> "none", inStr |-> <<>>, inNum |-> 0, fns |-> <<>>,
     str |-> <<>>, num |-> 0, err |-> FALSE]

\* The surroundings: a ledger of the given height, the Options handed to the
\* constructor, no failed forward block, no GetCurrentBlock call in progress.
EnvInit(height, options) ==
    /\ chainHead = height
    /\ opts = options
    /\ fwdFailed = {}
    /\ gcb = [pc |-> "idle", ret |-> 0]
    /\ codec = NoCodecCall

(***************************************************************************)
(* Start and Stop.                                                         *)
(***************************************************************************)
\* The contexts in use, and those a Start may be given: one in use, or the
\* first one not yet in use (contexts are interchangeable).
UsedCtxs == {ctxOf[g] : g \in Spawned}
CtxOrder == <<"ctx1", "ctx2">>
FreshCtxs == {CtxOrder[i] : i \in {j \in 1..Len(CtxOrder) :
                  /\ CtxOrder[j] \notin UsedCtxs
                  /\ \A k \in 1..(j - 1) : CtxOrder[k] \in UsedCtxs}}
StartCtxs == UsedCtxs \cup FreshCtxs

\* Start: p.pollingStartedMu.Lock(); the read of p.pollingStarted.
StartEnter(s) ==
    /\ st[s].phase = "idle"
    /\ LockFree(pollingStartedMu)
    /\ pollingStarted \/ NextGen <= MaxGen
    /\ pollingStartedMu' = s
    /\ st' = [st EXCEPT ![s] = [phase |-> "body", saw |-> pollingStarted]]
    /\ UNCHANGED <<block, pollingStarted, wg, backwardScanEnabled, backwardScanDepth,
                   task, ctxOf, cancelled, stopPc, stopSaw, storeVars, clientVars, envVars>>

\* Whether Start goes on to spawn, given the flag it read.
StartSpawnsAlways(started) == TRUE
StartSpawns(started) == ~started

\* Start: if p.pollingStarted { return }; p.pollingStarted = true;
\* p.wg.Add(1); go p.pollLoop(ctx); the deferred Unlock.
StartLeave(s) ==
    /\ st[s].phase = "body"
    /\ IF StartSpawns(st[s].saw) /\ NextGen <= MaxGen
       THEN /\ pollingStarted' = TRUE
            /\ wg' = wg + 1
            /\ task' = [task EXCEPT ![PollOf(NextGen)].pc = "init_fetch"]
            /\ \E ctx \in StartCtxs : ctxOf' = [ctxOf EXCEPT ![NextGen] = ctx]
       ELSE UNCHANGED <<pollingStarted, wg, task, ctxOf>>
    /\ pollingStartedMu' = NoThread
    /\ st' = [st EXCEPT ![s] = [phase |-> "idle", saw |-> FALSE]]
    /\ UNCHANGED <<block, backwardScanEnabled, backwardScanDepth, cancelled,
                   stopPc, stopSaw, storeVars, clientVars, envVars>>

\* Stop: p.wg.Wait() begins.
StopCall ==
    /\ stopPc = "idle"
    /\ stopPc' = "waiting"
    /\ UNCHANGED <<parserVars, task, ctxOf, cancelled, st, stopSaw,
                   storeVars, clientVars, envVars>>

\* A variant of Stop whose Wait returns whatever the counter is.
StopReturnAtOnce ==
    /\ stopPc = "waiting"
    /\ stopPc' = "returned"
    /\ stopSaw' = Spawned
    /\ UNCHANGED <<parserVars, task, ctxOf, cancelled, st, storeVars, clientVars, envVars>>

\* Stop: p.wg.Wait() returns once the counter is zero.
StopReturn ==
    /\ stopPc = "waiting"
    /\ wg = 0
    /\ stopPc' = "returned"
    /\ stopSaw' = Spawned
    /\ UNCHANGED <<parserVars, task, ctxOf, cancelled, st, storeVars, clientVars, envVars>>

\* The caller cancels a context a Start was given.  (The scanner first
\* looks at a context after Start has spawned the task, so a context cancelled
\* before its Start acts as one cancelled right after Start returned.)
Cancel(ctx) ==
    /\ ctx \in UsedCtxs
    /\ ctx \notin cancelled
    /\ cancelled' = cancelled \cup {ctx}
    /\ UNCHANGED <<parserVars, task, ctxOf, st, stopPc, stopSaw,
                   storeVars, clientVars, envVars>>

(***************************************************************************)
(* processBlock, run by the coordinating task and by the backward scan.    *)
(***************************************************************************)
Max(a, b) == IF a >= b THEN a ELSE b
Last(s) == s[Len(s)]

\* The call processBlock(ctx, number) begins for the caller at `site`.
BeginProcessBlock(rec, number, site) ==
    [rec EXCEPT !.pc = "pb_fetch", !.site = site, !.num = number,
                !.blk = <<>>, !.k = 0, !.res = "none", !.log = <<>>]

\* The record filed at tx.From and the one filed at tx.To.
OutboundRecord(tx, number) ==
    Record(tx.Hash, tx.From, tx.To, DecimalValue[tx.Value], number, FALSE)
InboundRecordUnflagged(tx, number) ==
    Record(tx.Hash, tx.From, tx.To, DecimalValue[tx.Value], number, FALSE)
InboundRecord(tx, number) ==
    Record(tx.Hash, tx.From, tx.To, DecimalValue[tx.Value], number, TRUE)

\* After p.client.Call(ctx, "eth_getBlockByNumber", ...): an error returns at
\* once; otherwise the loop over block.Transactions begins.
ProcessBlockFetchedKeepGoing(rec, failed, fetched) ==
    IF fetched = <<>>
    THEN [rec EXCEPT !.pc = "pb_ret", !.res = IF failed THEN "err" ELSE "ok"]
    ELSE [rec EXCEPT !.pc = "pb_from", !.blk = fetched, !.k = 1,
                     !.res = IF failed THEN "err" ELSE "none"]
ProcessBlockFetched(rec, failed, fetched) ==
    IF failed THEN [rec EXCEPT !.pc = "pb_ret", !.res = "err"]
    ELSE IF fetched = <<>> THEN [rec EXCEPT !.pc = "pb_ret", !.res = "ok"]
    ELSE [rec EXCEPT !.pc = "pb_from", !.blk = fetched, !.k = 1]

\* processBlock: the call of eth_getBlockByNumber(formatBlockNum(number), true).
ProcessBlockFetch(t) ==
    /\ task[t].pc = "pb_fetch"
    /\ \E failed \in RpcFailures(CtxOf(t) \in cancelled) :
         /\ task' = [task EXCEPT ![t] =
                       ProcessBlockFetched(task[t], failed, FetchedBlock[task[t].num])]
         /\ fwdFailed' = IF failed /\ task[t].site = "fwd"
                          THEN fwdFailed \cup {task[t].num} ELSE fwdFailed
    /\ UNCHANGED <<parserVars, ctxOf, cancelled, st, stopPc, stopSaw,
                   storeVars, clientVars, chainHead, opts, gcb, codec>>

\* processBlock: p.store.AddTransaction(tx.From, ...), the whole call: the
\* lock is taken, the record appended, the lock released.
ProcessBlockFrom(t) ==
    /\ task[t].pc = "pb_from"
    /\ LET tx == task[t].blk[task[t].k]
       IN  /\ AddTransaction(tx.From, OutboundRecord(tx, task[t].num))
           /\ task' = [task EXCEPT ![t].pc = "pb_to",
                          ![t].log = Append(@, <<tx.From, Last(txs'[tx.From])>>)]
    /\ UNCHANGED <<parserVars, ctxOf, cancelled, st, stopPc, stopSaw, clientVars, envVars>>

\* processBlock: p.store.AddTransaction(tx.To, ...), the whole call; the loop
\* goes on to the next transaction, or processBlock returns nil.
ProcessBlockTo(t) ==
    /\ task[t].pc = "pb_to"
    /\ LET tx == task[t].blk[task[t].k]
           more == task[t].k < Len(task[t].blk)
       IN  /\ AddTransaction(tx.To, InboundRecord(tx, task[t].num))
           /\ task' = [task EXCEPT
                          ![t].pc = IF more THEN "pb_from" ELSE "pb_ret",
                          ![t].k = IF more THEN @ + 1 ELSE @,
                          ![t].res = IF more THEN @ ELSE "ok",
                          ![t].log = Append(@, <<tx.To, Last(txs'[tx.To])>>)]
    /\ UNCHANGED <<parserVars, ctxOf, cancelled, st, stopPc, stopSaw, clientVars, envVars>>

\* The fields of a finished processBlock call are dropped.
EndProcessBlock(rec) ==
    [rec EXCEPT !.site = "none", !.num = 0, !.blk = <<>>, !.k = 0,
                !.res = "none", !.log = <<>>]

(***************************************************************************)
(* pollLoop: the coordinating task.                                        *)
(***************************************************************************)
\* pollLoop, step 1: eth_blockNumber; on an error the task returns, otherwise
\* latestBlock := hexToInt(blockHex) and processBlock(ctx, latestBlock) begins.
PollInitFetch(t) ==
    /\ task[t].pc = "init_fetch"
    /\ \E failed \in RpcFailures(CtxOf(t) \in cancelled) :
         IF failed
         THEN task' = [task EXCEPT ![t].pc = "defer_lock", ![t].res = "fatal"]
         ELSE \E blockHex \in HeadResponsesUpTo(chainHead) :
                task' = [task EXCEPT ![t] =
                           BeginProcessBlock([task[t] EXCEPT !.latest = HeadOf[blockHex]],
                                             HeadOf[blockHex], "init")]
    /\ UNCHANGED <<parserVars, ctxOf, cancelled, st, stopPc, stopSaw,
                   storeVars, clientVars, envVars>>

\* A variant of step 2 that sets the cursor only when processBlock returned
\* no error.
PollInitSetUnlessFailed(t) ==
    /\ task[t].pc = "pb_ret" /\ task[t].site = "init"
    /\ block' = IF task[t].res = "err" THEN block ELSE task[t].latest
    /\ task' = [task EXCEPT ![t] = [EndProcessBlock(task[t]) EXCEPT !.pc = "spawn"]]
    /\ UNCHANGED <<pollingStarted, pollingStartedMu, wg, backwardScanEnabled,
                   backwardScanDepth, ctxOf, cancelled, st, stopPc, stopSaw,
                   storeVars, clientVars, envVars>>

\* pollLoop, step 2: processBlock has returned (its error is only logged);
\* p.block = latestBlock.
PollInitSet(t) ==
    /\ task[t].pc = "pb_ret" /\ task[t].site = "init"
    /\ block' = task[t].latest
    /\ task' = [task EXCEPT ![t] = [EndProcessBlock(task[t]) EXCEPT !.pc = "spawn"]]
    /\ UNCHANGED <<pollingStarted, pollingStartedMu, wg, backwardScanEnabled,
                   backwardScanDepth, ctxOf, cancelled, st, stopPc, stopSaw,
                   storeVars, clientVars, envVars>>

\* p.wg.Add(1) before go p.scanBackward(...).
WgUntracked(w) == w
WgAddBackward(w) == w + 1

\* stopAt := latestBlock - p.backwardScanDepth; if stopAt < 1 { stopAt = 1 }
StopAt(latestBlock, depth) == IF latestBlock - depth < 1 THEN 1 ELSE latestBlock - depth

\* pollLoop, step 3: the backward scan is spawned if enabled; step 4: the
\* task enters scanForward.
PollSpawn(t) ==
    /\ task[t].pc = "spawn"
    /\ IF backwardScanEnabled
       THEN /\ wg' = WgAddBackward(wg)
            /\ task' = [task EXCEPT
                          ![t] = [@ EXCEPT !.pc = "fwd_select", !.latest = 0],
                          ![BackOf(t[2])] =
                              [NoTask EXCEPT !.pc = "loop",
                                             !.latest = task[t].latest,
                                             !.i = task[t].latest - 1,
                                             !.stopAt = StopAt(task[t].latest,
                                                               backwardScanDepth)]]
       ELSE /\ wg' = wg
            /\ task' = [task EXCEPT ![t] = [@ EXCEPT !.pc = "fwd_select", !.latest = 0]]
    /\ UNCHANGED <<block, pollingStarted, pollingStartedMu, backwardScanEnabled,
                   backwardScanDepth, ctxOf, cancelled, st, stopPc, stopSaw,
                   storeVars, clientVars, envVars>>

\* scanForward: the select takes <-ctx.Done() and the task returns.
ScanForwardDoneMissed(t) ==
    /\ task[t].pc = "fwd_select"
    /\ CtxOf(t) \in cancelled
    /\ UNCHANGED vars
ScanForwardDone(t) ==
    /\ task[t].pc = "fwd_select"
    /\ CtxOf(t) \in cancelled
    /\ task' = [task EXCEPT ![t].pc = "defer_lock"]
    /\ UNCHANGED <<parserVars, ctxOf, cancelled, st, stopPc, stopSaw,
                   storeVars, clientVars, envVars>>

\* A variant of the batch of checkForNewBlocks that begins at the cursor
\* itself instead of the block after it.
CheckForNewBlocksFetchedFromCursor(rec, latestBlock, cursor) ==
    IF latestBlock > cursor
    THEN BeginProcessBlock([rec EXCEPT !.latest = latestBlock, !.i = cursor,
                                       !.batch = <<cursor>>],
                           cursor, "fwd")
    ELSE rec

\* checkForNewBlocks after its head fetch answered latestBlock: the batch
\* (p.block, latestBlock] begins, or there is nothing to do.
CheckForNewBlocksFetched(rec, latestBlock, cursor) ==
    IF latestBlock > cursor
    THEN BeginProcessBlock([rec EXCEPT !.latest = latestBlock, !.i = cursor + 1,
                                       !.batch = <<cursor + 1>>],
                           cursor + 1, "fwd")
    ELSE rec

\* scanForward: the select takes <-ticker.C; checkForNewBlocks calls
\* eth_blockNumber; on an error it returns the error at once.
CheckForNewBlocks(t) ==
    /\ task[t].pc = "fwd_select"
    /\ \E failed \in RpcFailures(CtxOf(t) \in cancelled) :
         IF failed
         THEN task' = [task EXCEPT ![t].pc = "chk_err"]
         ELSE \E blockHex \in HeadResponsesUpTo(chainHead) :
                task' = [task EXCEPT ![t] =
                           CheckForNewBlocksFetched(task[t], HeadOf[blockHex], block)]
    /\ UNCHANGED <<parserVars, ctxOf, cancelled, st, stopPc, stopSaw,
                   storeVars, clientVars, envVars>>

\* scanForward: the error checkForNewBlocks returned is logged and the loop
\* goes back to its select.
ScanForwardLogErrorAndReturn(t) ==
    /\ task[t].pc = "chk_err"
    /\ task' = [task EXCEPT ![t].pc = "defer_lock"]
    /\ UNCHANGED <<parserVars, ctxOf, cancelled, st, stopPc, stopSaw,
                   storeVars, clientVars, envVars>>
ScanForwardLogError(t) ==
    /\ task[t].pc = "chk_err"
    /\ task' = [task EXCEPT ![t].pc = "fwd_select"]
    /\ UNCHANGED <<parserVars, ctxOf, cancelled, st, stopPc, stopSaw,
                   storeVars, clientVars, envVars>>

\* The loop increment i++ of checkForNewBlocks.
NextInBatchSkipping(i) == i + 2
NextInBatch(i) == i + 1

\* A variant of the loop of checkForNewBlocks that returns to the caller's
\* exit when the context is cancelled.
CheckForNewBlocksLoopCancellable(t) ==
    /\ task[t].pc = "pb_ret" /\ task[t].site = "fwd"
    /\ task' = [task EXCEPT ![t] =
                  IF CtxOf(t) \in cancelled
                  THEN [EndProcessBlock(task[t]) EXCEPT !.pc = "defer_lock"]
                  ELSE IF NextInBatch(task[t].i) <= task[t].latest
                  THEN BeginProcessBlock([task[t] EXCEPT
                                             !.i = NextInBatch(@),
                                             !.batch = Append(@, NextInBatch(task[t].i))],
                                         NextInBatch(task[t].i), "fwd")
                  ELSE [EndProcessBlock(task[t]) EXCEPT !.pc = "chk_set"]]
    /\ UNCHANGED <<parserVars, ctxOf, cancelled, st, stopPc, stopSaw,
                   storeVars, clientVars, envVars>>

\* checkForNewBlocks: processBlock(ctx, i) has returned; i++ and the next
\* block of the batch, or the loop is over.
CheckForNewBlocksLoop(t) ==
    /\ task[t].pc = "pb_ret" /\ task[t].site = "fwd"
    /\ task' = [task EXCEPT ![t] =
                  IF NextInBatch(task[t].i) <= task[t].latest
                  THEN BeginProcessBlock([task[t] EXCEPT
                                             !.i = NextInBatch(@),
                                             !.batch = Append(@, NextInBatch(task[t].i))],
                                         NextInBatch(task[t].i), "fwd")
                  ELSE [EndProcessBlock(task[t]) EXCEPT !.pc = "chk_set"]]
    /\ UNCHANGED <<parserVars, ctxOf, cancelled, st, stopPc, stopSaw,
                   storeVars, clientVars, envVars>>

\* checkForNewBlocks: p.block = latestBlock after the loop; back to the select.
CheckForNewBlocksSet(t) ==
    /\ task[t].pc = "chk_set"
    /\ block' = task[t].latest
    /\ task' = [task EXCEPT ![t] = [@ EXCEPT !.pc = "fwd_select", !.latest = 0,
                                             !.i = 0, !.batch = <<>>]]
    /\ UNCHANGED <<pollingStarted, pollingStartedMu, wg, backwardScanEnabled,
                   backwardScanDepth, ctxOf, cancelled, st, stopPc, stopSaw,
                   storeVars, clientVars, envVars>>

\* pollLoop's deferred function: p.pollingStartedMu.Lock().
PollDeferLock(t) ==
    /\ task[t].pc = "defer_lock"
    /\ LockFree(pollingStartedMu)
    /\ pollingStartedMu' = t
    /\ task' = [task EXCEPT ![t].pc = "defer_clear"]
    /\ UNCHANGED <<block, pollingStarted, wg, backwardScanEnabled, backwardScanDepth,
                   ctxOf, cancelled, st, stopPc, stopSaw, storeVars, clientVars, envVars>>

\* pollLoop's deferred function: p.pollingStarted = false; Unlock().
PollDeferClearKeepsFlag(t) ==
    /\ task[t].pc = "defer_clear"
    /\ pollingStartedMu' = NoThread
    /\ task' = [task EXCEPT ![t].pc = "defer_done"]
    /\ UNCHANGED <<block, pollingStarted, wg, backwardScanEnabled, backwardScanDepth,
                   ctxOf, cancelled, st, stopPc, stopSaw, storeVars, clientVars, envVars>>
PollDeferClear(t) ==
    /\ task[t].pc = "defer_clear"
    /\ pollingStarted' = FALSE
    /\ pollingStartedMu' = NoThread
    /\ task' = [task EXCEPT ![t].pc = "defer_done"]
    /\ UNCHANGED <<block, wg, backwardScanEnabled, backwardScanDepth,
                   ctxOf, cancelled, st, stopPc, stopSaw, storeVars, clientVars, envVars>>

\* p.wg.Done()
WgDoneForgotten(w) == w
WgDone(w) == w - 1

\* pollLoop's deferred function: p.wg.Done(); the goroutine ends.
PollDeferDone(t) ==
    /\ task[t].pc = "defer_done"
    /\ wg' = WgDone(wg)
    /\ task' = [task EXCEPT ![t] = [ExitedTask EXCEPT !.res = task[t].res]]
    /\ UNCHANGED <<block, pollingStarted, pollingStartedMu, backwardScanEnabled,
                   backwardScanDepth, ctxOf, cancelled, st, stopPc, stopSaw,
                   storeVars, clientVars, envVars>>

(***************************************************************************)
(* scanBackward.                                                           *)
(***************************************************************************)
\* A variant of the loop of scanBackward without the select on ctx.Done().
ScanBackwardStepUnchecked(t) ==
    /\ task[t].pc = "loop"
    /\ task' = [task EXCEPT ![t] =
                  IF task[t].i < task[t].stopAt THEN [@ EXCEPT !.pc = "done"]
                  ELSE BeginProcessBlock([@ EXCEPT !.batch = Append(@, task[t].i)],
                                         task[t].i, "back")]
    /\ UNCHANGED <<parserVars, ctxOf, cancelled, st, stopPc, stopSaw,
                   storeVars, clientVars, envVars>>

\* scanBackward: the loop test i >= stopAt, then the select: <-ctx.Done()
\* returns, default calls processBlock(ctx, i).
ScanBackwardStep(t) ==
    /\ task[t].pc = "loop"
    /\ task' = [task EXCEPT ![t] =
                  IF task[t].i < task[t].stopAt THEN [@ EXCEPT !.pc = "done"]
                  ELSE IF CtxOf(t) \in cancelled THEN [@ EXCEPT !.pc = "done"]
                  ELSE BeginProcessBlock([@ EXCEPT !.batch = Append(@, task[t].i)],
                                         task[t].i, "back")]
    /\ UNCHANGED <<parserVars, ctxOf, cancelled, st, stopPc, stopSaw,
                   storeVars, clientVars, envVars>>

\* A variant of the loop step of scanBackward that stores i in the cursor.
ScanBackwardNextMovingCursor(t) ==
    /\ task[t].pc = "pb_ret" /\ task[t].site = "back"
    /\ block' = task[t].i
    /\ task' = [task EXCEPT ![t] = [EndProcessBlock(task[t]) EXCEPT !.pc = "loop",
                                                                    !.i = @ - 1]]
    /\ UNCHANGED <<pollingStarted, pollingStartedMu, wg, backwardScanEnabled,
                   backwardScanDepth, ctxOf, cancelled, st, stopPc, stopSaw,
                   storeVars, clientVars, envVars>>

\* scanBackward: processBlock(ctx, i) has returned; i--.
ScanBackwardNextHaltOnError(t) ==
    /\ task[t].pc = "pb_ret" /\ task[t].site = "back"
    /\ task' = [task EXCEPT ![t] =
                  [EndProcessBlock(task[t]) EXCEPT
                      !.pc = IF task[t].res = "err" THEN "done" ELSE "loop",
                      !.i = @ - 1]]
    /\ UNCHANGED <<parserVars, ctxOf, cancelled, st, stopPc, stopSaw,
                   storeVars, clientVars, envVars>>
ScanBackwardNext(t) ==
    /\ task[t].pc = "pb_ret" /\ task[t].site = "back"
    /\ task' = [task EXCEPT ![t] = [EndProcessBlock(task[t]) EXCEPT !.pc = "loop",
                                                                    !.i = @ - 1]]
    /\ UNCHANGED <<parserVars, ctxOf, cancelled, st, stopPc, stopSaw,
                   storeVars, clientVars, envVars>>

\* scanBackward: the deferred p.wg.Done(); the goroutine ends.
ScanBackwardDone(t) ==
    /\ task[t].pc = "done"
    /\ wg' = WgDone(wg)
    /\ task' = [task EXCEPT ![t] = ExitedTask]
    /\ UNCHANGED <<block, pollingStarted, pollingStartedMu, backwardScanEnabled,
                   backwardScanDepth, ctxOf, cancelled, st, stopPc, stopSaw,
                   storeVars, clientVars, envVars>>

(***************************************************************************)
(* GetCurrentBlock, called from another goroutine (the HTTP facade).       *)
(***************************************************************************)
\* The call begins: the caller is about to load p.block, with no lock taken.
GetCurrentBlockCall ==
    /\ gcb.pc = "idle"
    /\ gcb' = [gcb EXCEPT !.pc = "read"]
    /\ UNCHANGED <<parserVars, runVars, storeVars, clientVars,
                   chainHead, opts, fwdFailed, codec>>

\* return p.block
GetCurrentBlockReturn ==
    /\ gcb.pc = "read"
    /\ gcb' = [pc |-> "idle", ret |-> block]
    /\ UNCHANGED <<parserVars, runVars, storeVars, clientVars,
                   chainHead, opts, fwdFailed, codec>>

(***************************************************************************)
(* The scanner specification: one parser over one store, callers of Start, *)
(* Stop and cancel, and the goroutines they spawn.                         *)
(***************************************************************************)
Init ==
    /\ StoreInit
    /\ ClientInit
    /\ \E options \in OptionValues :
         NewParserWithInterval(options) /\ EnvInit(MaxHead, options)
    /\ RunInit

Next ==
    \/ \E s \in StartCallers : StartEnter(s)
    \/ \E s \in StartCallers : StartLeave(s)
    \/ StopCall
    \/ StopReturn
    \/ \E ctx \in Ctxs : Cancel(ctx)
    \/ \E t \in Tasks :
         \/ ProcessBlockFetch(t)
         \/ ProcessBlockFrom(t)
         \/ ProcessBlockTo(t)
    \/ \E t \in PollTasks :
         \/ PollInitFetch(t)
         \/ PollInitSet(t)
         \/ PollSpawn(t)
         \/ ScanForwardDone(t)
         \/ CheckForNewBlocks(t)
         \/ ScanForwardLogError(t)
         \/ CheckForNewBlocksLoop(t)
         \/ CheckForNewBlocksSet(t)
         \/ PollDeferLock(t)
         \/ PollDeferClear(t)
         \/ PollDeferDone(t)
    \/ \E t \in BackTasks :
         \/ ScanBackwardStep(t)
         \/ ScanBackwardNext(t)
         \/ ScanBackwardDone(t)

Spec == Init /\ [][Next]_vars

\* The steps a goroutine is free to take once it has reached them: all but
\* the tick (CheckForNewBlocks), the Done case of scanForward's select and
\* the Lock() of pollLoop's deferred function.
TaskStep(t) ==
    \/ ProcessBlockFetch(t)
    \/ ProcessBlockFrom(t)
    \/ ProcessBlockTo(t)
    \/ PollInitFetch(t)
    \/ PollInitSet(t)
    \/ PollSpawn(t)
    \/ ScanForwardLogError(t)
    \/ CheckForNewBlocksLoop(t)
    \/ CheckForNewBlocksSet(t)
    \/ PollDeferClear(t)
    \/ PollDeferDone(t)
    \/ ScanBackwardStep(t)
    \/ ScanBackwardNext(t)
    \/ ScanBackwardDone(t)

\* The steps another goroutine can keep disabling: the select of scanForward
\* takes its Done case, the deferred function acquires the mutex.
TaskAcquire(t) == ScanForwardDone(t) \/ PollDeferLock(t)

\* Fair scheduling with RPC calls that return: a goroutine steps when it
\* can, a select whose Done case is ready again and again takes it, a mutex
\* free again and again is acquired, a Start call in its body finishes, and a
\* Wait whose counter stays zero returns.
Fairness ==
    /\ \A t \in Tasks : WF_vars(TaskStep(t))
    /\ \A t \in PollTasks : SF_vars(TaskAcquire(t))
    /\ \A s \in StartCallers : WF_vars(StartLeave(s))
    /\ WF_vars(StopReturn)

\* The liveness specification: a scanner with a backward scan of depth 1
\* whose caller hands the same context to every Start it makes, from one
\* thread, under fair scheduling.
LiveInit ==
    /\ StoreInit
    /\ ClientInit
    /\ NewParserWithInterval([BackwardScanEnabled |-> TRUE, BackwardScanDepth |-> 1])
    /\ EnvInit(MaxHead, [BackwardScanEnabled |-> TRUE, BackwardScanDepth |-> 1])
    /\ RunInit

LiveNext ==
    \/ StartEnter(<<"start", 1>>)
    \/ StartLeave(<<"start", 1>>) /\ ctxOf' \in [Gens -> {"none", CtxOrder[1]}]
    \/ StopCall
    \/ StopReturn
    \/ \E ctx \in Ctxs : Cancel(ctx)
    \/ \E t \in Tasks : TaskStep(t)
    \/ \E t \in PollTasks : TaskAcquire(t)
    \/ \E t \in PollTasks : CheckForNewBlocks(t)

FairSpec == LiveInit /\ [][LiveNext]_vars /\ Fairness

\* The single-run specification: one Start on a ledger of height MaxRunHead,
\* no Start after it, and a caller of GetCurrentBlock beside the scanner.  The
\* Options are those of the scanner specification, a backward scan of the
\* default depth and one of depth 2.
RunOptionValues ==
    OptionValues \cup {[BackwardScanEnabled |-> TRUE, BackwardScanDepth |-> 0],
                       [BackwardScanEnabled |-> TRUE, BackwardScanDepth |-> 2]}

RunSpecInit ==
    /\ StoreInit
    /\ ClientInit
    /\ \E options \in RunOptionValues :
         NewParserWithInterval(options) /\ EnvInit(MaxRunHead, options)
    /\ RunInit

RunSpecNext ==
    \/ StartEnter(<<"start", 1>>) /\ Spawned = {}
    \/ StartLeave(<<"start", 1>>)
    \/ StopCall
    \/ StopReturn
    \/ \E ctx \in Ctxs : Cancel(ctx)
    \/ \E t \in Tasks : TaskStep(t)
    \/ \E t \in PollTasks : TaskAcquire(t)
    \/ \E t \in PollTasks : CheckForNewBlocks(t)
    \/ GetCurrentBlockCall
    \/ GetCurrentBlockReturn

SpecRun == RunSpecInit /\ [][RunSpecNext]_vars

(***************************************************************************)
(* The head specification: the scanner of one Start on a node that may      *)
(* answer eth_blockNumber with a string strconv.ParseInt rejects.           *)
(***************************************************************************)
\* Strings ParseInt reports an error on: the empty string, the bare prefix,
\* a character that is no hex digit, and the least value that does not fit
\* the integer type.
UnparsableHeads ==
    {blockHex \in HeadResponses \cup
                    {<<>>, <<"0", "x">>, <<"0", "x", "1", "g">>,
                     <<"0", "x">> \o FormatHex(IntCutoff)} :
        ParseInt16(TrimPrefix0x(blockHex)).err}
UnparsableHeadOf == [blockHex \in UnparsableHeads |-> hexToInt(blockHex)]

\* pollLoop, step 1, with eth_blockNumber answered by blockHex:
\* latestBlock := hexToInt(blockHex) and processBlock(ctx, latestBlock) begins.
PollInitAnswered(t, blockHex) ==
    /\ task[t].pc = "init_fetch"
    /\ FALSE \in RpcFailures(CtxOf(t) \in cancelled)
    /\ task' = [task EXCEPT ![t] =
                  BeginProcessBlock([task[t] EXCEPT !.latest = UnparsableHeadOf[blockHex]],
                                    UnparsableHeadOf[blockHex], "init")]
    /\ UNCHANGED <<parserVars, ctxOf, cancelled, st, stopPc, stopSaw,
                   storeVars, clientVars, envVars>>

\* checkForNewBlocks with eth_blockNumber answered by blockHex.
CheckForNewBlocksAnswered(t, blockHex) ==
    /\ task[t].pc = "fwd_select"
    /\ FALSE \in RpcFailures(CtxOf(t) \in cancelled)
    /\ task' = [task EXCEPT ![t] =
                  CheckForNewBlocksFetched(task[t], UnparsableHeadOf[blockHex], block)]
    /\ UNCHANGED <<parserVars, ctxOf, cancelled, st, stopPc, stopSaw,
                   storeVars, clientVars, envVars>>

\* The ledger of the model has the blocks BlockNumbers: a task that has
\* asked for a block beyond them is followed no further.
WithinLedger == \A t \in Tasks : task[t].num \in BlockNumbers

HeadSpecInit ==
    /\ StoreInit
    /\ ClientInit
    /\ \E options \in RunOptionValues :
         NewParserWithInterval(options) /\ EnvInit(MaxHead, options)
    /\ RunInit

HeadSpecNext ==
    \/ WithinLedger /\ StartEnter(<<"start", 1>>) /\ Spawned = {}
    \/ WithinLedger /\ StartLeave(<<"start", 1>>)
    \/ WithinLedger /\ (\E ctx \in Ctxs : Cancel(ctx))
    \/ WithinLedger /\ (\E t \in Tasks : TaskStep(t))
    \/ WithinLedger /\ (\E t \in PollTasks : TaskAcquire(t))
    \/ WithinLedger /\ (\E t \in PollTasks : CheckForNewBlocks(t))
    \/ WithinLedger /\ (\E t \in PollTasks : \E blockHex \in UnparsableHeads :
                          PollInitAnswered(t, blockHex))
    \/ WithinLedger /\ (\E t \in PollTasks : \E blockHex \in UnparsableHeads :
                          CheckForNewBlocksAnswered(t, blockHex))

SpecHead == HeadSpecInit /\ [][HeadSpecNext]_vars

(***************************************************************************)
(* The lock specification: the scanner of one Start together with a caller *)
(* of the store, with the store calls of processBlock taken in two steps   *)
(* as the callers' are, so that both mutexes are held over several steps.  *)
(***************************************************************************)
\* processBlock: p.store.AddTransaction(tx.From, ...) takes the store's mutex.
ProcessBlockFromEnter(t) ==
    /\ task[t].pc = "pb_from"
    /\ AddTransactionEnter(t, task[t].blk[task[t].k].From)
    /\ task' = [task EXCEPT ![t].pc = "pb_from_mu"]
    /\ UNCHANGED <<parserVars, ctxOf, cancelled, st, stopPc, stopSaw, clientVars, envVars>>

\* A variant of the return of AddTransaction(tx.From, ...) that keeps the
\* store's mutex locked.
ProcessBlockFromLeaveLocked(t) ==
    /\ task[t].pc = "pb_from_mu"
    /\ LET tx == task[t].blk[task[t].k]
       IN  /\ txs' = [txs EXCEPT ![tx.From] =
                        Append(tmp[t], OutboundRecord(tx, task[t].num))]
           /\ UNCHANGED <<subs, mu, tmp>>
           /\ task' = [task EXCEPT ![t].pc = "pb_to",
                          ![t].log = Append(@, <<tx.From, Last(txs'[tx.From])>>)]
    /\ UNCHANGED <<parserVars, ctxOf, cancelled, st, stopPc, stopSaw, clientVars, envVars>>

\* processBlock: AddTransaction(tx.From, ...) appends, unlocks and returns.
ProcessBlockFromLeave(t) ==
    /\ task[t].pc = "pb_from_mu"
    /\ LET tx == task[t].blk[task[t].k]
       IN  /\ AddTransactionLeave(t, tx.From, OutboundRecord(tx, task[t].num))
           /\ task' = [task EXCEPT ![t].pc = "pb_to",
                          ![t].log = Append(@, <<tx.From, Last(txs'[tx.From])>>)]
    /\ UNCHANGED <<parserVars, ctxOf, cancelled, st, stopPc, stopSaw, clientVars, envVars>>

\* processBlock: p.store.AddTransaction(tx.To, ...) takes the store's mutex.
ProcessBlockToEnter(t) ==
    /\ task[t].pc = "pb_to"
    /\ AddTransactionEnter(t, task[t].blk[task[t].k].To)
    /\ task' = [task EXCEPT ![t].pc = "pb_to_mu"]
    /\ UNCHANGED <<parserVars, ctxOf, cancelled, st, stopPc, stopSaw, clientVars, envVars>>

\* processBlock: AddTransaction(tx.To, ...) appends, unlocks and returns; the
\* loop goes on to the next transaction, or processBlock returns nil.
ProcessBlockToLeave(t) ==
    /\ task[t].pc = "pb_to_mu"
    /\ LET tx == task[t].blk[task[t].k]
           more == task[t].k < Len(task[t].blk)
       IN  /\ AddTransactionLeave(t, tx.To, InboundRecord(tx, task[t].num))
           /\ task' = [task EXCEPT
                          ![t].pc = IF more THEN "pb_from" ELSE "pb_ret",
                          ![t].k = IF more THEN @ + 1 ELSE @,
                          ![t].res = IF more THEN @ ELSE "ok",
                          ![t].log = Append(@, <<tx.To, Last(txs'[tx.To])>>)]
    /\ UNCHANGED <<parserVars, ctxOf, cancelled, st, stopPc, stopSaw, clientVars, envVars>>

\* The caller of the store next to the scanner (the HTTP facade).
Facade == <<"client", 1>>
\* The one caller of Start.
Starter == <<"start", 1>>

LockSpecInit ==
    /\ StoreInit
    /\ ClientInit
    /\ NewParserWithInterval([BackwardScanEnabled |-> TRUE, BackwardScanDepth |-> 1])
    /\ EnvInit(MaxHead, [BackwardScanEnabled |-> TRUE, BackwardScanDepth |-> 1])
    /\ RunInit

\* Start is called again only while the scanner has not exited; the facade
\* makes one call, about the address A.
LockSpecNext ==
    \/ StartEnter(Starter) /\ (Spawned = {} \/ pollingStarted)
    \/ StartLeave(Starter)
    \/ StopCall
    \/ StopReturn
    \/ \E ctx \in Ctxs : Cancel(ctx)
    \/ \E t \in Tasks :
         \/ ProcessBlockFetch(t)
         \/ ProcessBlockFromEnter(t)
         \/ ProcessBlockFromLeave(t)
         \/ ProcessBlockToEnter(t)
         \/ ProcessBlockToLeave(t)
    \/ \E t \in PollTasks :
         \/ PollInitFetch(t)
         \/ PollInitSet(t)
         \/ PollSpawn(t)
         \/ ScanForwardDone(t)
         \/ CheckForNewBlocks(t)
         \/ ScanForwardLogError(t)
         \/ CheckForNewBlocksLoop(t)
         \/ CheckForNewBlocksSet(t)
         \/ PollDeferLock(t)
         \/ PollDeferClear(t)
         \/ PollDeferDone(t)
    \/ \E t \in BackTasks :
         \/ ScanBackwardStep(t)
         \/ ScanBackwardNext(t)
         \/ ScanBackwardDone(t)
    \/ /\ \/ ClientCall(Facade) /\ nCalls = 0 /\ cl'[Facade].addr = "A"
          \/ ClientEnter(Facade)
          \/ ClientSubscribeReturn(Facade)
          \/ ClientAddTransactionReturn(Facade)
          \/ ClientGetTransactionsReturn(Facade)
          \/ ClientIsSubscribedReturn(Facade)
       /\ UNCHANGED <<parserVars, runVars, envVars>>

SpecLocks == LockSpecInit /\ [][LockSpecNext]_vars

\* The store specification: the scanner stays as constructed.
StoreSpecInit ==
    /\ StoreInit
    /\ ClientInit
    /\ NewParserWithInterval([BackwardScanEnabled |-> FALSE, BackwardScanDepth |-> 0])
    /\ EnvInit(MaxHead, [BackwardScanEnabled |-> FALSE, BackwardScanDepth |-> 0])
    /\ RunInit

StoreSpecNext ==
    /\ \E c \in Clients :
         \/ ClientCall(c)
         \/ ClientEnter(c)
         \/ ClientSubscribeReturn(c)
         \/ ClientAddTransactionReturn(c)
         \/ ClientGetTransactionsReturn(c)
         \/ ClientIsSubscribedReturn(c)
    /\ UNCHANGED <<parserVars, runVars, envVars>>

SpecStore == StoreSpecInit /\ [][StoreSpecNext]_vars

(***************************************************************************)
(* The codec specification: a caller hands a string to hexToInt, to        *)
(* hexToBigIntString or to decodeHex, or a block number to formatBlockNum  *)
(* and the result to hexToInt.                                             *)
(***************************************************************************)
\* k copies of the character c.
Fill(c, k) == [i \in 1..k |-> c]

\* The strings handed to the codec.  Short ones: every string of at most
\* three characters over digits of both cases, a character that is no digit,
\* the signs and the x of the prefix, bare and behind "0x".
ShortChars == {"0", "1", "a", "F", "g", "-", "+", "x"}
ShortStrings ==
    {<<>>} \cup {<<a>> : a \in ShortChars}
           \cup {<<a, b>> : a, b \in ShortChars}
           \cup {<<a, b, c>> : a, b, c \in ShortChars}

\* Strings around a boundary of n digits: an optional sign, a leading
\* character, n-1 or n copies of a digit, an optional last character.
BoundaryStrings(n) ==
    {sign \o lead \o Fill(d, k) \o last :
        sign \in {<<>>, <<"-">>, <<"+">>},
        lead \in {<<>>, <<"0">>, <<"1">>, <<"7">>, <<"8">>, <<"f">>},
        d \in {"0", "1", "f"},
        k \in {n - 1, n},
        last \in {<<>>, <<"1">>, <<"g">>}}

\* The number of hex digits of the widest unsigned value of the integer type.
IntHexDigits == (IntBits + 3) \div 4

CodecStrings ==
    LET bare == ShortStrings \cup BoundaryStrings(IntHexDigits)
                             \cup BoundaryStrings(MaxValueHexDigits)
    IN  bare \cup {<<"0", "x">> \o b : b \in bare}

\* The block numbers handed to formatBlockNum.
CodecNumbers == 0..MaxBlockNum

CodecInputs ==
    {[NoCodecCall EXCEPT !.kind = "str", !.inStr = h, !.str = h] : h \in CodecStrings}
    \cup {[NoCodecCall EXCEPT !.kind = "num", !.inNum = n, !.num = n] : n \in CodecNumbers}

CodecSpecInit ==
    /\ StoreInit
    /\ ClientInit
    /\ NewParserWithInterval([BackwardScanEnabled |-> FALSE, BackwardScanDepth |-> 0])
    /\ RunInit
    /\ chainHead = MaxHead
    /\ opts = [BackwardScanEnabled |-> FALSE, BackwardScanDepth |-> 0]
    /\ fwdFailed = {}
    /\ gcb = [pc |-> "idle", ret |-> 0]
    /\ codec \in CodecInputs

\* formatBlockNum(num) on the number handed in.
CodecFormatBlockNum ==
    /\ codec.kind = "num" /\ codec.fns = <<>>
    /\ codec' = [codec EXCEPT !.fns = <<"formatBlockNum">>,
                              !.str = formatBlockNum(codec.num)]
    /\ UNCHANGED <<storeVars, clientVars, parserVars, runVars,
                   chainHead, opts, fwdFailed, gcb>>

\* hexToInt(hexStr) on the string handed in, or on what formatBlockNum returned.
CodecHexToInt ==
    /\ \/ codec.kind = "str" /\ codec.fns = <<>>
       \/ codec.fns = <<"formatBlockNum">>
    /\ codec' = [codec EXCEPT !.fns = Append(@, "hexToInt"),
                              !.num = hexToInt(codec.str)]
    /\ UNCHANGED <<storeVars, clientVars, parserVars, runVars,
                   chainHead, opts, fwdFailed, gcb>>

\* hexToBigIntString(h) on the string handed in.
CodecHexToBigIntString ==
    /\ codec.kind = "str" /\ codec.fns = <<>>
    /\ codec' = [codec EXCEPT !.fns = <<"hexToBigIntString">>,
                              !.str = hexToBigIntString(codec.str)]
    /\ UNCHANGED <<storeVars, clientVars, parserVars, runVars,
                   chainHead, opts, fwdFailed, gcb>>

\* decodeHex(hexStr) on the string handed in.
CodecDecodeHex ==
    /\ codec.kind = "str" /\ codec.fns = <<>>
    /\ codec' = [codec EXCEPT !.fns = <<"decodeHex">>,
                              !.num = decodeHex(codec.str).val,
                              !.err = decodeHex(codec.str).err]
    /\ UNCHANGED <<storeVars, clientVars, parserVars, runVars,
                   chainHead, opts, fwdFailed, gcb>>

CodecSpecNext ==
    \/ CodecFormatBlockNum
    \/ CodecHexToInt
    \/ CodecHexToBigIntString
    \/ CodecDecodeHex

SpecCodec == CodecSpecInit /\ [][CodecSpecNext]_vars

(***************************************************************************)
(* Claims about the address store (specification SpecStore).               *)
(***************************************************************************)
IsPrefix(s, t) == Len(s) <= Len(t) /\ SubSeq(t, 1, Len(s)) = s

\* C1: of any number of concurrent Subscribe(a) calls exactly one returns
\* true and every other returns false: never two true results, a false result
\* only beside a true one, a returned call leaves a subscribed, and an
\* IsSubscribed(a) begun after a Subscribe(a) returned answers true.
C1_SubscribeExactlyOnce ==
    /\ \A a \in Addrs :
         /\ subTrue[a] <= 1
         /\ subFalse[a] > 0 => subTrue[a] = 1
         /\ a \in subReturned => (subTrue[a] = 1 /\ a \in subs)
    /\ \A c \in Clients :
         (cl[c].op = "is" /\ cl[c].phase = "ret" /\ cl[c].subRet)
            => cl[c].ret = TRUE

\* Three callers subscribed the same address, one got true and two false,
\* and a later IsSubscribed answered true.
C1_Witness ==
    /\ subTrue["A"] = 1 /\ subFalse["A"] = 2
    /\ \E c \in Clients :
         cl[c].op = "is" /\ cl[c].phase = "ret" /\ cl[c].addr = "A"
         /\ cl[c].subRet /\ cl[c].ret = TRUE

\* C2: GetTransactions(a) returns the empty sequence as long as no
\* Subscribe(a) has begun, whatever was added; a GetTransactions(a) begun
\* after a Subscribe(a) returned returns the records added for a: all those
\* added before the call, in order, and nothing that was not added.
C2_GetTransactionsGated ==
    \A c \in Clients :
        (cl[c].op = "get" /\ cl[c].phase = "ret") =>
            /\ cl[c].unsub => cl[c].ret = <<>>
            /\ cl[c].subRet =>
                  /\ IsPrefix(cl[c].pre, cl[c].ret)
                  /\ IsPrefix(cl[c].ret, added[cl[c].addr])

\* One read of A returned nothing although a record had been added, before
\* any Subscribe(A) began; a read after the subscription returned the record.
C2_Witness ==
    \E c1, c2 \in Clients :
        /\ cl[c1].op = "get" /\ cl[c1].phase = "ret" /\ cl[c1].addr = "A"
        /\ cl[c1].unsub /\ Len(cl[c1].pre) = 1 /\ cl[c1].ret = <<>>
        /\ cl[c2].op = "get" /\ cl[c2].phase = "ret" /\ cl[c2].addr = "A"
        /\ cl[c2].subRet /\ cl[c2].ret = cl[c1].pre

(***************************************************************************)
(* Claims about the block scanner (specifications Spec and FairSpec).      *)
(***************************************************************************)
\* The decimal digits of a natural number, most significant first.
RECURSIVE NatToDec(_)
NatToDec(n) ==
    IF n < 10 THEN <<DecChars[n + 1]>>
    ELSE Append(NatToDec(n \div 10), DecChars[(n % 10) + 1])

\* The decimal rendering of a hexadecimal quantity of the ledger.
DecimalOf(value) == NatToDec(HexDigitsValue(TrimPrefix0x(value), 0))

\* The generations whose coordinating task holds the started flag: spawned
\* and not yet past the clearing of the flag in its exit path.
RunningGens == {g \in Gens : task[PollOf(g)].pc \notin {"none", "defer_done", "exited"}}

\* The generations whose coordinating task has attempted its initial head fetch.
InitFetchGens == {g \in Gens : task[PollOf(g)].pc \notin {"none", "init_fetch"}}

\* C3: a processBlock(N) that returned nil appended, for each transaction of
\* block N in order, one record to the list of its from address with
\* inbound=false and then one to the list of its to address with
\* inbound=true, both with the transaction's hash, from, to, the decimal
\* rendering of its value and block N; it appended nothing else.
C3_ProcessBlockRecords ==
    \A t \in Tasks :
        (task[t].pc = "pb_ret" /\ task[t].res = "ok") =>
            LET N == task[t].num
                blk == Chain(N)
            IN  /\ Len(task[t].log) = 2 * Len(blk)
                /\ \A k \in 1..Len(blk) :
                     /\ task[t].log[2 * k - 1] =
                          <<blk[k].From,
                            Record(blk[k].Hash, blk[k].From, blk[k].To,
                                   DecimalOf(blk[k].Value), N, FALSE)>>
                     /\ task[t].log[2 * k] =
                          <<blk[k].To,
                            Record(blk[k].Hash, blk[k].From, blk[k].To,
                                   DecimalOf(blk[k].Value), N, TRUE)>>

\* processBlock(2) returned nil after filing the four records of the two
\* transactions of block 2, and processBlock(1) returned nil with a record
\* of value 4096 filed at B.
C3_Witness ==
    /\ \E t \in Tasks :
         task[t].pc = "pb_ret" /\ task[t].res = "ok" /\ task[t].num = 2
         /\ Len(task[t].log) = 4
    /\ \E i \in 1..Len(txs["B"]) :
         txs["B"][i] = Record("h1", "A", "B", <<"4","0","9","6">>, 1, TRUE)

\* C4: a processBlock whose block fetch failed returns the error at once and
\* has appended nothing; the step in which the fetch fails changes neither
\* the records nor the subscriptions of the store.
C4_FetchFailureLeavesStore ==
    /\ [](\A t \in Tasks :
            task[t].res = "err" => (task[t].pc = "pb_ret" /\ task[t].log = <<>>))
    /\ [][\A t \in Tasks :
            (task[t].pc = "pb_fetch" /\ task'[t].res = "err")
               => (txs' = txs /\ subs' = subs)]_vars

\* processBlock returned an error for block 2 while the store held records.
C4_Witness ==
    /\ \E t \in Tasks :
         task[t].pc = "pb_ret" /\ task[t].res = "err" /\ task[t].num = 2
    /\ \E a \in Addrs : txs[a] # <<>>

C7_StopWaitsForTasks ==
    stopPc = "returned" =>
        \A g \in stopSaw : ~Alive(PollOf(g)) /\ ~Alive(BackOf(g))

\* Stop returned after a coordinating task and its backward scan, which
\* filed records, had both exited.
C7_Witness ==
    /\ stopPc = "returned"
    /\ \E g \in stopSaw :
         task[PollOf(g)].pc = "exited" /\ task[BackOf(g)].pc = "exited"
    /\ \E a \in Addrs : txs[a] # <<>>

\* C8: a Stop that waits while every context given to a Start is cancelled
\* (none, if Start was never called) returns, unless a Start is then given a
\* context that is not cancelled.
C8_StopTerminates ==
    (stopPc = "waiting" /\ UsedCtxs \subseteq cancelled)
        ~> (stopPc = "returned" \/ ~(UsedCtxs \subseteq cancelled))

\* Stop returned on a scanner whose Start had been given a context that was
\* cancelled.
C8_Witness ==
    /\ stopPc = "returned"
    /\ stopSaw # {}
    /\ UsedCtxs \subseteq cancelled

\* C9, as stated: no step decrements the cursor.
C9_CursorNeverDecremented == [][block' >= block]_vars

\* The block numbers lo+1, ..., hi in ascending order.
Ascending(lo, hi) == [k \in 1..(hi - lo) |-> lo + k]

\* C10: during a forward batch the cursor keeps the value it had when the
\* head was fetched and the blocks attempted so far are cursor+1, ..., the
\* current one, each once and in ascending order, none beyond the head; when
\* the loop is over the blocks attempted are cursor+1, ..., head; and the
\* step that ends the batch sets the cursor to that head.
C10_ForwardBatch ==
    /\ [](\A t \in PollTasks :
            /\ task[t].site = "fwd" =>
                 /\ block < task[t].num /\ task[t].num <= task[t].latest
                 /\ task[t].batch = Ascending(block, task[t].num)
            /\ task[t].pc = "chk_set" =>
                 /\ block < task[t].latest
                 /\ task[t].batch = Ascending(block, task[t].latest))
    /\ [][\A t \in PollTasks :
            /\ (task[t].pc = "chk_set" /\ task'[t].pc # "chk_set")
                 => block' = task[t].latest
            /\ (task[t].site = "fwd" /\ task[t].pc # "chk_set")
                 => block' = block]_vars

\* A batch of two blocks is over and the cursor still holds its old value 0.
C10_Witness ==
    \E t \in PollTasks :
        task[t].pc = "chk_set" /\ task[t].batch = <<1, 2>> /\ block = 0

\* C11, as stated: when processBlock fails for a block of a forward batch
\* no record is added for it, the rest of the batch is still attempted, the
\* cursor still advances to the fetched head, and the forward poll never
\* attempts a block again whose forward attempt has failed: a forward attempt
\* that begins is for a block number outside fwdFailed.
C11_FailedBlockNeverRetried ==
    /\ [](\A t \in PollTasks :
            (task[t].site = "fwd" /\ task[t].res = "err")
               => task[t].log = <<>> /\ task[t].num \in fwdFailed)
    /\ [][\A t \in PollTasks :
            /\ (task[t].site = "fwd" /\ task[t].res = "err" /\ task'[t] # task[t])
                 => IF task[t].num < task[t].latest
                    THEN task'[t].pc = "pb_fetch" /\ task'[t].num = task[t].num + 1
                    ELSE task'[t].pc = "chk_set"
            /\ (task[t].pc = "chk_set" /\ task'[t].pc # "chk_set")
                 => block' = task[t].latest
            /\ (task'[t].pc = "pb_fetch" /\ task'[t].site = "fwd"
                  /\ task[t].pc # "pb_fetch")
                 => task'[t].num \notin fwdFailed]_vars

\* C12: a forward tick whose head fetch fails processes no block and leaves
\* the cursor and the store as they are: the task is back from
\* checkForNewBlocks with nothing begun, the failing step and the step that
\* logs the error change neither block nor txs nor subs, and after the error
\* the task is at the select of scanForward again, with its locals as before
\* the tick, where the next tick polls again.
C12_FailedTickChangesNothing ==
    /\ [](\A t \in PollTasks :
            task[t].pc = "chk_err" =>
               /\ task[t].site = "none" /\ task[t].batch = <<>>
               /\ task[t].latest = 0 /\ task[t].log = <<>>)
    /\ [][\A t \in PollTasks :
            /\ (task'[t].pc = "chk_err" /\ task[t].pc # "chk_err")
                 => /\ task[t].pc = "fwd_select"
                    /\ block' = block /\ txs' = txs /\ subs' = subs
            /\ (task[t].pc = "chk_err" /\ task'[t] # task[t])
                 => /\ task'[t] = [task[t] EXCEPT !.pc = "fwd_select"]
                    /\ block' = block /\ txs' = txs /\ subs' = subs]_vars

\* The head fetch of a tick failed, under a context that is not cancelled,
\* on a scanner whose cursor is 2 and whose store holds records.
C12_Witness ==
    \E t \in PollTasks :
        /\ task[t].pc = "chk_err"
        /\ CtxOf(t) \notin cancelled
        /\ block = 2
        /\ txs["B"] # <<>>

(***************************************************************************)
(* Claims about a single run (specification SpecRun).                      *)
(***************************************************************************)
\* C13: when the first head fetch after Start fails the coordinating task
\* goes straight to its exit: it begins no processBlock, spawns no backward
\* scan and never reaches scanForward, its steps change neither the store nor
\* the cursor, the store stays empty, the cursor stays 0 and every
\* GetCurrentBlock returns 0, and once the deferred function has run the
\* started flag is clear.
C13_FatalStartup ==
    /\ [](\A g \in Gens :
            task[PollOf(g)].res = "fatal" =>
               /\ task[PollOf(g)].pc \in {"defer_lock", "defer_clear", "defer_done", "exited"}
               /\ task[PollOf(g)].site = "none"
               /\ task[BackOf(g)].pc = "none"
               /\ \A a \in Addrs : txs[a] = <<>>
               /\ subs = {}
               /\ block = 0
               /\ gcb.ret = 0
               /\ task[PollOf(g)].pc \in {"defer_done", "exited"} => ~pollingStarted)
    /\ [][\A t \in PollTasks :
            /\ (task[t].pc = "init_fetch" /\ task'[t].pc # "init_fetch")
                 => \/ task'[t].pc = "pb_fetch" /\ task'[t].site = "init"
                    \/ task'[t].pc = "defer_lock" /\ task'[t].res = "fatal"
            /\ task[t].res = "fatal" => task'[t].res = "fatal"]_vars

\* The first head fetch failed, the coordinating task has returned, and a
\* GetCurrentBlock call made after that is about to read the cursor.
C13_Witness ==
    /\ task[PollOf(1)].pc = "exited"
    /\ task[PollOf(1)].res = "fatal"
    /\ gcb.pc = "read"

\* The block numbers hi, hi-1, ..., lo in descending order.
Descending(hi, lo) == [k \in 1..(hi - lo + 1) |-> hi + 1 - k]

\* The blocks a backward scan begun at head `latest` is to attempt.
BackwardRange(latest) ==
    Descending(latest - 1, Max(1, latest - backwardScanDepth))

\* C14: the blocks a backward scan has attempted are, in order, the first
\* ones of head-1, head-2, ..., max(1, head-depth), each once and no other;
\* a processBlock in progress is for the last of them; between two blocks the
\* scan has attempted exactly the numbers above i; a scan that ends under a
\* context that is not cancelled has attempted them all; a scan from a head
\* of at most 1 attempts nothing; and after processBlock returns, with an
\* error or without, the scan moves on to the next lower number.
C14_BackwardScanRange ==
    /\ [](\A t \in BackTasks :
            Alive(t) =>
               /\ IsPrefix(task[t].batch, BackwardRange(task[t].latest))
               /\ task[t].site = "back" =>
                     task[t].batch # <<>> /\ task[t].num = Last(task[t].batch)
               /\ task[t].pc = "loop" =>
                     task[t].batch = Descending(task[t].latest - 1, task[t].i + 1)
               /\ (task[t].pc = "done" /\ CtxOf(t) \notin cancelled) =>
                     task[t].batch = BackwardRange(task[t].latest)
               /\ task[t].latest <= 1 => task[t].batch = <<>>)
    /\ [][\A t \in BackTasks :
            (task[t].pc = "pb_ret" /\ task'[t] # task[t])
               => /\ task'[t].pc = "loop"
                  /\ task'[t].i = task[t].num - 1
                  /\ task'[t].batch = task[t].batch]_vars

\* A backward scan from head 3 has ended without cancellation after
\* attempting blocks 2 and 1; block 2 failed (the store has no record of it)
\* and block 1 was stored.
C14_Witness ==
    \E t \in BackTasks :
        /\ task[t].pc = "done" /\ CtxOf(t) \notin cancelled
        /\ task[t].latest = 3 /\ task[t].batch = <<2, 1>>
        /\ \A a \in Addrs : \A k \in 1..Len(txs[a]) : txs[a][k].Block # 2
        /\ \E k \in 1..Len(txs["A"]) : txs["A"][k].Block = 1

(***************************************************************************)
(* Claims about termination (specification FairSpec).                      *)
(***************************************************************************)
\* C15: under fair scheduling with RPC calls that return, every goroutine
\* of the scanner that is alive while its context is cancelled eventually
\* exits; a backward scan that makes its cancellation check under a cancelled
\* context begins no further block and returns; the forward loop leaves its
\* select under a cancelled context only to return or for one more tick; and
\* the coordinating task clears the started flag in the step that ends its
\* deferred function's critical section, before it exits.
C15_CancelledTasksExit ==
    /\ \A t \in Tasks : (Alive(t) /\ CtxOf(t) \in cancelled) ~> ~Alive(t)
    /\ [][/\ \A t \in BackTasks :
              (task[t].pc = "loop" /\ CtxOf(t) \in cancelled /\ task'[t] # task[t])
                 => task'[t].pc = "done"
          /\ \A t \in PollTasks :
              /\ (task[t].pc = "defer_clear" /\ task'[t].pc # "defer_clear")
                   => task'[t].pc = "defer_done" /\ ~pollingStarted'
              /\ (task'[t].pc = "exited" /\ task[t].pc # "exited")
                   => task[t].pc = "defer_done"]_vars

\* The context was cancelled after the scanner had moved its cursor to 2;
\* the coordinating task and the backward scan have exited and the flag is
\* clear.
C15_Witness ==
    /\ CtxOf(PollOf(1)) \in cancelled
    /\ task[PollOf(1)].pc = "exited" /\ task[PollOf(1)].res # "fatal"
    /\ task[BackOf(1)].pc = "exited"
    /\ block = 2
    /\ ~pollingStarted

(***************************************************************************)
(* Claims about the scanner's goroutines (specification Spec).             *)
(***************************************************************************)
\* The coordinating tasks and the backward scans that are alive, and the
\* coordinating tasks that are inside scanForward.
AlivePolls == {t \in PollTasks : Alive(t)}
AliveBacks == {t \in BackTasks : Alive(t)}
InForward == {t \in PollTasks :
                \/ task[t].pc \in {"fwd_select", "chk_err", "chk_set"}
                \/ task[t].site = "fwd"}

\* C16, as stated: in every reachable state at most one coordinating task
\* and at most one backward scan are alive, and the scanning units alive
\* (coordinating tasks, forward-poll loops, backward scans) are at most three.
C16_AtMostThreeUnits ==
    /\ Cardinality(AlivePolls) <= 1
    /\ Cardinality(AliveBacks) <= 1
    /\ Cardinality(AlivePolls) + Cardinality(InForward) + Cardinality(AliveBacks) <= 3

\* The accesses of p.block that are next: a coordinating task is about to
\* assign it (pollLoop after the initial processBlock, checkForNewBlocks after
\* its loop), the caller of GetCurrentBlock is about to load it.
AboutToWriteCursor(t) ==
    \/ task[t].pc = "pb_ret" /\ task[t].site = "init"
    \/ task[t].pc = "chk_set"
AboutToReadCursor == gcb.pc = "read"

\* C17, as stated: no read of the cursor overlaps a write of it: there is
\* no state in which GetCurrentBlock's load and a coordinating task's
\* assignment are both the next step of their goroutines with nothing that
\* orders them (neither holds or waits for a lock).
C17_NoCursorRace ==
    ~(AboutToReadCursor /\ \E t \in PollTasks : AboutToWriteCursor(t))

(***************************************************************************)
(* More claims about the address store (specification SpecStore).          *)
(***************************************************************************)
\* C18: every address's list is append-only and in insertion order: each
\* step leaves the list an extension of what it was, and the list is at all
\* times exactly the records of the completed AddTransaction calls for the
\* address in the order the calls completed, so k completed calls leave k
\* records, none lost, removed, reordered or altered, whatever GetTransactions
\* and other callers do concurrently.
C18_AppendOnly ==
    /\ [](\A a \in Addrs : txs[a] = added[a])
    /\ [][\A a \in Addrs :
            /\ IsPrefix(txs[a], txs'[a])
            /\ Len(txs'[a]) <= Len(txs[a]) + 1]_vars

\* Three callers have each completed an AddTransaction for the same address
\* and a GetTransactions for it is inside its critical section.
C18_Witness ==
    /\ Len(txs["A"]) = 3
    /\ {txs["A"][k].Block : k \in 1..3} = {1, 2, 3}
    /\ \E c \in Clients :
         cl[c].op = "get" /\ cl[c].phase = "body" /\ cl[c].addr = "A"

\* C19: storage does not depend on subscription or on other addresses: the
\* step in which AddTransaction(a, r) does its work appends r to a's list,
\* subscribed or not, and changes no other list and no subscription; the step
\* in which Subscribe(a) does its work changes no list and at most adds a to
\* the subscribed addresses; no other step of a store call changes lists or
\* subscriptions.
C19_StorageIndependent ==
    [][\A c \in Clients :
         LET a == cl[c].addr
             done == cl[c].phase = "body" /\ cl'[c].phase = "ret"
         IN  /\ (done /\ cl[c].op = "add")
                  => /\ txs'[a] = Append(txs[a], cl[c].tx)
                     /\ \A b \in Addrs \ {a} : txs'[b] = txs[b]
                     /\ subs' = subs
             /\ (done /\ cl[c].op = "sub")
                  => /\ txs' = txs
                     /\ subs' = subs \cup {a}
             /\ (cl'[c] # cl[c] /\ ~(done /\ cl[c].op \in {"add", "sub"}))
                  => txs' = txs /\ subs' = subs]_vars

\* A record was added for an address nobody has subscribed, while another
\* address is subscribed and has no record.
C19_Witness ==
    /\ "A" \notin subCalled /\ "A" \notin subs
    /\ txs["A"] = <<ClientTx(<<"client", 1>>, "A")>>
    /\ "B" \in subs /\ txs["B"] = <<>>

(***************************************************************************)
(* Claims about construction.                                              *)
(***************************************************************************)
\* Options that set nothing: the zero value of the struct.
UnsetOptions == [BackwardScanEnabled |-> FALSE, BackwardScanDepth |-> 0]

\* C20, as stated: a scanner constructed with Options that do not set
\* backward scanning has it enabled, and one constructed with a depth that
\* is not positive scans to depth 10000.
C20_OptionDefaults ==
    /\ opts = UnsetOptions => backwardScanEnabled
    /\ opts.BackwardScanDepth <= 0 => backwardScanDepth = DefaultBackwardScanDepth

(***************************************************************************)
(* Claims about the codec (specification SpecCodec).                       *)
(***************************************************************************)
\* A string of one or more hex digits, of either case.
IsHexDigits(s) == s # <<>> /\ \A i \in 1..Len(s) : IsHexChar(s[i])

\* A string without its leading zeros (the empty string for zero).
RECURSIVE StripZeros(_)
StripZeros(s) ==
    IF s # <<>> /\ Head(s) = "0" THEN StripZeros(Tail(s)) ELSE s

\* The last n characters of a string.
LastChars(s, n) == IF Len(s) > n THEN SubSeq(s, Len(s) - n + 1, Len(s)) ELSE s

\* The values of the digits of a hex string, most significant first.
DigitValues(s) == [i \in 1..Len(s) |-> HexVal(s[i])]

\* A decimal numeral: digits only, no leading zero except "0" itself.
IsDecimalNumeral(s) ==
    /\ s # <<>>
    /\ \A i \in 1..Len(s) : \E j \in 1..10 : DecChars[j] = s[i]
    /\ Len(s) > 1 => s[1] # "0"

RECURSIVE TimesPlus(_, _, _)
\* A base-16 number held least-significant digit first, times m plus carry.
TimesPlus(hs, m, carry) ==
    IF hs = <<>>
    THEN IF carry = 0 THEN <<>> ELSE <<carry % 16>> \o TimesPlus(<<>>, m, carry \div 16)
    ELSE LET v == Head(hs) * m + carry
         IN  <<v % 16>> \o TimesPlus(Tail(hs), m, v \div 16)

\* The value of a decimal digit, and of a numeral of at most four digits.
DecVal(c) == (CHOOSE j \in 1..10 : DecChars[j] = c) - 1
SmallDecimal(ds) ==
    CASE Len(ds) = 1 -> DecVal(ds[1])
      [] Len(ds) = 2 -> DecVal(ds[1]) * 10 + DecVal(ds[2])
      [] Len(ds) = 3 -> DecVal(ds[1]) * 100 + DecVal(ds[2]) * 10 + DecVal(ds[3])
      [] OTHER -> DecVal(ds[1]) * 1000 + DecVal(ds[2]) * 100
                    + DecVal(ds[3]) * 10 + DecVal(ds[4])

RECURSIVE DecimalToHexRev(_, _)
\* The value of a decimal numeral as base-16 digit values, least significant
\* first: the decimal digits folded in from the left, four at a time.
DecimalToHexRev(ds, acc) ==
    IF ds = <<>> THEN acc
    ELSE LET n == IF Len(ds) >= 4 THEN 4 ELSE Len(ds)
             m == CASE n = 1 -> 10 [] n = 2 -> 100 [] n = 3 -> 1000 [] OTHER -> 10000
             next == TimesPlus(acc, m, SmallDecimal(SubSeq(ds, 1, n)))
         IN  IF Len(next) >= 0
             THEN DecimalToHexRev(SubSeq(ds, n + 1, Len(ds)), next)
             ELSE <<>>

\* The digit values, most significant first and without leading zeros, of
\* the number a decimal numeral denotes.
ValueOfDecimal(s) ==
    LET rev == DecimalToHexRev(s, <<>>)
    IN  [i \in 1..Len(rev) |-> rev[Len(rev) + 1 - i]]

\* What hexToBigIntString is to return for the hex digits `body`: the
\* decimal numeral whose value is that of the digits.
IsDecimalOf(out, body) ==
    /\ IsDecimalNumeral(out)
    /\ ValueOfDecimal(out) = DigitValues(StripZeros(body))

\* C21, as stated: for a string h of hex digits, with or without the 0x
\* prefix, hexToBigIntString(h) is the decimal numeral of the value of the
\* last 64 digits of h; for the empty string and for every other string it
\* is "0".
C21_TruncatedDecimal ==
    codec.fns = <<"hexToBigIntString">> =>
       LET body == TrimPrefix0x(codec.inStr)
       IN  IF IsHexDigits(body)
           THEN IsDecimalOf(codec.str, LastChars(body, MaxValueHexDigits))
           ELSE codec.str = <<"0">>

FitsInt(body) ==
    LET sig == StripZeros(body)
    IN  Len(sig) <= IntHexDigits /\ HexDigitsValue(sig, 0) < IntCutoff

\* C23, as stated: hexToInt strips an optional 0x prefix and parses base 16:
\* for hex digits whose value fits the integer type it returns the value,
\* and for every other input (the empty string, a string with a character
\* that is no hex digit, a value that does not fit) it returns 0.
C23_MalformedGivesZero ==
    (codec.kind = "str" /\ codec.fns = <<"hexToInt">>) =>
       LET body == TrimPrefix0x(codec.inStr)
       IN  IF IsHexDigits(body) /\ FitsInt(body)
           THEN codec.num = HexDigitsValue(StripZeros(body), 0)
           ELSE codec.num = 0

\* C24: for every block number n >= 0, formatBlockNum(n) is "0x" followed by
\* the lowercase hex digits of n without leading zeros ("0x0" for 0), and
\* hexToInt(formatBlockNum(n)) = n.
C24_RoundTrip ==
    /\ codec.fns # <<>> /\ codec.fns[1] = "formatBlockNum" =>
          LET enc == formatBlockNum(codec.inNum)
              digits == SubSeq(enc, 3, Len(enc))
          IN  /\ Len(enc) >= 3 /\ enc[1] = "0" /\ enc[2] = "x"
              /\ \A i \in 1..Len(digits) : \E j \in 1..16 : HexChars[j] = digits[i]
              /\ digits[1] = "0" => digits = <<"0">>
              /\ HexDigitsValue(digits, 0) = codec.inNum
              /\ codec.inNum = 0 => enc = <<"0", "x", "0">>
              /\ codec.fns = <<"formatBlockNum">> => codec.str = enc
    /\ codec.fns = <<"formatBlockNum", "hexToInt">> => codec.num = codec.inNum

\* hexToInt has returned 255 for "0xff", the encoding formatBlockNum(255).
C24_Witness ==
    /\ codec.fns = <<"formatBlockNum", "hexToInt">>
    /\ codec.inNum = 255
    /\ codec.str = <<"0", "x", "f", "f">>
    /\ codec.num = 255

(***************************************************************************)
(* Further claims about the scanner.                                       *)
(***************************************************************************)
\* C25: on a scanner started once, when a Stop has returned after the Start
\* spawned, the started flag is false; and every step in which the
\* coordinating task signals its completion (wg.Done) is taken with the flag
\* already cleared.
C25_StoppedMeansFlagClear ==
    /\ []((stopPc = "returned" /\ stopSaw # {}) => ~pollingStarted)
    /\ [][\A t \in PollTasks :
             (task[t].pc = "defer_done" /\ task'[t].pc = "exited" /\ wg' = wg - 1)
                => (~pollingStarted /\ ~pollingStarted')]_vars

\* Start spawned, the context was cancelled while the coordinating task was
\* scanning, the task left through its deferred function and Stop returned.
C25_Witness ==
    /\ stopPc = "returned"
    /\ stopSaw = {1}
    /\ ctxOf[1] \in cancelled
    /\ task[PollOf(1)].pc = "exited"
    /\ task[PollOf(1)].res # "fatal"
    /\ ~pollingStarted

\* C26: a coordinating task whose first head fetch succeeded begins
\* processBlock(head); when that call has returned, with or without an
\* error, the task's next step sets the cursor to head; its step after that
\* spawns the backward scan, if enabled, over the blocks below head, and
\* enters the forward poll.  Until then no backward scan of that task exists
\* and the task has attempted no forward block.
C26_StartupOrder ==
    /\ [](\A g \in Gens :
            LET p == task[PollOf(g)]
            IN  (p.pc = "init_fetch" \/ p.site = "init" \/ p.pc = "spawn") =>
                   /\ task[BackOf(g)].pc = "none"
                   /\ p.batch = <<>>
                   /\ p.site \in {"none", "init"})
    /\ [][\A g \in Gens :
            LET p == task[PollOf(g)]
                q == task'[PollOf(g)]
                b == task'[BackOf(g)]
            IN  /\ (p.pc = "init_fetch" /\ q # p) =>
                       \/ q.pc = "defer_lock"
                       \/ q.pc = "pb_fetch" /\ q.site = "init" /\ q.num = q.latest
                /\ (p.site = "init" /\ q.site = "init") =>
                       (block' = block /\ q.num = p.num /\ q.latest = p.latest)
                /\ (p.site = "init" /\ q.site # "init") =>
                       /\ p.pc = "pb_ret" /\ p.res \in {"ok", "err"}
                       /\ p.num = p.latest
                       /\ block' = p.latest
                       /\ q.pc = "spawn" /\ q.latest = p.latest
                /\ (p.pc = "spawn" /\ q # p) =>
                       /\ q.pc = "fwd_select"
                       /\ block' = block /\ block = p.latest
                       /\ IF backwardScanEnabled
                          THEN b.pc = "loop" /\ b.i = p.latest - 1 /\ b.batch = <<>>
                          ELSE b.pc = "none"]_vars

\* processBlock(head) failed on a head block that holds transactions, so the
\* store is empty, and the cursor has been set to head all the same; the
\* task is about to spawn the backward scan.
C26_Witness ==
    \E g \in Gens :
        /\ task[PollOf(g)].pc = "spawn"
        /\ block = task[PollOf(g)].latest
        /\ block > 0
        /\ FetchedBlock[block] # <<>>
        /\ backwardScanEnabled
        /\ \A a \in Addrs : txs[a] = <<>>

\* C27: in every step taken while the context of a backward scan is
\* cancelled, the scan begins no processBlock: from its loop test it goes to
\* its exit even when blocks of its range remain, and the only block it
\* still works on is the one begun before the cancellation (the last of the
\* blocks it has attempted).
C27_BackwardStopsOnCancel ==
    [][\A t \in BackTasks :
          CtxOf(t) \in cancelled =>
             LET p == task[t]
                 q == task'[t]
             IN  /\ (p.pc = "loop" /\ q # p) => q.pc = "done"
                 /\ q.pc \notin {"none", "exited"} => q.batch = p.batch
                 /\ q.site = "back" =>
                       /\ p.site = "back" /\ q.num = p.num
                       /\ p.batch # <<>> /\ p.num = Last(p.batch)]_vars

\* A backward scan over the blocks 2 and 1 is at its exit after the context
\* was cancelled: it attempted block 2 only and block 1 remains.
C27_Witness ==
    \E t \in BackTasks :
        /\ CtxOf(t) \in cancelled
        /\ task[t].pc = "done"
        /\ task[t].batch = <<2>>
        /\ task[t].i = 1 /\ task[t].stopAt = 1

\* C28: every step of a backward scan leaves the cursor unchanged, and keeps
\* the head its range was computed from and the lower end of the range; the
\* range is the one below that head whatever the cursor has become: the
\* blocks attempted so far are head-1, head-2, ... down to the current one,
\* none below StopAt(head, depth).
C28_BackwardLeavesCursor ==
    /\ [][\A t \in BackTasks :
            (Alive(t) /\ task'[t] # task[t]) =>
               /\ block' = block
               /\ task'[t].pc # "exited" =>
                     /\ task'[t].latest = task[t].latest
                     /\ task'[t].stopAt = task[t].stopAt]_vars
    /\ [](\A t \in BackTasks :
            Alive(t) =>
               /\ task[t].stopAt = StopAt(task[t].latest, backwardScanDepth)
               /\ task[t].batch =
                     [k \in 1..Len(task[t].batch) |-> task[t].latest - k]
               /\ \A k \in 1..Len(task[t].batch) : task[t].batch[k] >= task[t].stopAt)

\* A backward scan has just finished a block of the range below the head
\* captured at startup while the cursor has moved on past that head.
C28_Witness ==
    \E t \in BackTasks :
        /\ task[t].pc = "pb_ret" /\ task[t].site = "back"
        /\ task[t].batch # <<>>
        /\ block > task[t].latest

(***************************************************************************)
(* Claims about the two mutexes (specification SpecLocks).                 *)
(***************************************************************************)
\* A task is at an RPC call (eth_blockNumber, eth_getBlockByNumber) or at
\* the select of scanForward that waits for the ticker.
AtRpcOrTimer(t) == task[t].pc \in {"init_fetch", "pb_fetch", "fwd_select"}

\* C29: a task at an RPC call or at the timer wait holds neither the store's
\* mutex nor the started-flag mutex; no thread holds both; and whoever holds
\* one of them is inside the short section that ends with its release, a
\* step that is enabled, so no held mutex stays held.
C29_LocksNeverBlock ==
    /\ \A t \in Tasks : AtRpcOrTimer(t) => (mu # t /\ pollingStartedMu # t)
    /\ \A t \in Threads \cup {Starter} :
          ~(mu = t /\ pollingStartedMu = t)
    /\ mu \in {NoThread, Facade} \cup Tasks
    /\ pollingStartedMu \in {NoThread, Starter} \cup PollTasks
    /\ \A t \in Tasks :
          mu = t => /\ task[t].pc \in {"pb_from_mu", "pb_to_mu"}
                    /\ ENABLED (ProcessBlockFromLeave(t) \/ ProcessBlockToLeave(t))
    /\ mu = Facade =>
          /\ cl[Facade].phase = "body"
          /\ ENABLED (\/ ClientSubscribeReturn(Facade)
                      \/ ClientAddTransactionReturn(Facade)
                      \/ ClientGetTransactionsReturn(Facade)
                      \/ ClientIsSubscribedReturn(Facade))
    /\ \A t \in PollTasks :
          pollingStartedMu = t => /\ task[t].pc = "defer_clear"
                                  /\ mu # t
                                  /\ ENABLED PollDeferClear(t)
    /\ pollingStartedMu = Starter =>
          /\ st[Starter].phase = "body"
          /\ ENABLED StartLeave(Starter)

\* Both mutexes are held at once, by different threads: a second Start call
\* holds the started-flag mutex, the coordinating task holds the store's
\* mutex inside AddTransaction, and the facade waits for the store's mutex.
C29_Witness ==
    /\ pollingStartedMu = Starter
    /\ mu = PollOf(1)
    /\ task[PollOf(1)].pc = "pb_from_mu"
    /\ cl[Facade].phase = "lock"

(***************************************************************************)
(* The order of an address's list (specification SpecRun).                 *)
(***************************************************************************)
\* C30: an address's list is in arrival order: a step that changes a list
\* appends one record at its end, the record of the block the acting task is
\* processing, and leaves the records already there in place, whatever
\* their block numbers.
C30_ArrivalOrder ==
    [][\A a \in Addrs :
            txs'[a] # txs[a] =>
               /\ Len(txs'[a]) = Len(txs[a]) + 1
               /\ IsPrefix(txs[a], txs'[a])
               /\ \E t \in Tasks :
                     /\ task[t].pc \in {"pb_from", "pb_to"}
                     /\ task'[t] # task[t]
                     /\ Last(txs'[a]).Block = task[t].num]_vars

\* With the backward scan enabled, the list of an address holds a record of
\* the head block followed by a record of the block below it.
C30_Witness ==
    /\ backwardScanEnabled
    /\ \E a \in Addrs : \E i \in 1..(Len(txs[a]) - 1) :
          txs[a][i].Block = txs[a][i + 1].Block + 1

(***************************************************************************)
(* Claims about a single run (specification SpecRun).                      *)
(***************************************************************************)
\* No list of the store holds the same record twice.
NoRecordTwice ==
    \A a \in Addrs : \A i, j \in 1..Len(txs[a]) :
        i # j => txs[a][i] # txs[a][j]

\* The block numbers of the records in the store.
StoredBlocks == UNION {{txs[a][k].Block : k \in 1..Len(txs[a])} : a \in Addrs}

\* C31: within one run no block is passed to processBlock twice.  The step
\* that begins processBlock(n) finds no record of block n in the store; for
\* the head block it is the first call of the run; a forward block is above
\* the cursor and above every block of its batch so far; a backward block is
\* below the head captured at startup, which the cursor never falls below,
\* and below every block the scan has attempted.  The cursor never
\* decreases, and no list ever holds a record twice.
C31_EachBlockOnce ==
    /\ []NoRecordTwice
    /\ [](\A t \in BackTasks : Alive(t) => task[t].latest <= block)
    /\ [][block' >= block]_vars
    /\ [][\A t \in Tasks :
            (task[t].pc # "pb_fetch" /\ task'[t].pc = "pb_fetch") =>
               LET n == task'[t].num
                   site == task'[t].site
               IN  /\ n \notin StoredBlocks
                   /\ site = "init" =>
                         /\ n = task'[t].latest
                         /\ StoredBlocks = {}
                         /\ \A b \in BackTasks : task[b].pc = "none"
                   /\ site = "fwd" =>
                         /\ n > block
                         /\ \A k \in 1..Len(task[t].batch) : n > task[t].batch[k]
                         /\ \A b \in BackTasks : Alive(b) => n > task[b].latest
                   /\ site = "back" =>
                         /\ n < task[t].latest
                         /\ \A k \in 1..Len(task[t].batch) : n < task[t].batch[k]]_vars

\* One run has processed the head block 2, the block 1 below it in the
\* backward scan and the block 3 in a forward batch; the cursor is 3.
C31_Witness ==
    /\ StoredBlocks = {1, 2, 3}
    /\ block = 3
    /\ task[PollOf(1)].pc = "fwd_select"
    /\ task[BackOf(1)].pc = "exited"
    /\ NoRecordTwice

\* The coordinating task of generation g has set the cursor.
CursorSetBy(g) ==
    /\ task[PollOf(g)].pc \notin {"none", "init_fetch"}
    /\ task[PollOf(g)].site # "init"
    /\ task[PollOf(g)].res # "fatal"

\* C32: every step that sets the cursor is taken by a coordinating task for
\* which processBlock has returned, with or without an error, for the new
\* value: either the head call of startup has returned for it, or the forward
\* batch from the block after the old cursor up to the new value has been
\* attempted in full; so once the cursor is set, every block from the
\* startup head up to the cursor has been attempted.  GetCurrentBlock
\* reports the cursor: the initial 0 while the scanner has not set it, and
\* otherwise a value the scanner had set.
C32_CursorFollowsProcessing ==
    /\ [][block' # block =>
            \E t \in PollTasks :
               /\ task'[t] # task[t]
               /\ \/ /\ task[t].pc = "pb_ret" /\ task[t].site = "init"
                     /\ task[t].res \in {"ok", "err"}
                     /\ task[t].num = block'
                  \/ /\ task[t].pc = "chk_set"
                     /\ task[t].batch = Ascending(block, block')
                     /\ Len(task[t].batch) > 0]_vars
    /\ [](block # 0 => \E g \in Gens : CursorSetBy(g))
    /\ [][gcb'.ret # gcb.ret => (gcb.pc = "read" /\ gcb'.ret = block)]_vars
    /\ [](gcb.ret # 0 => (gcb.ret <= block /\ \E g \in Gens : CursorSetBy(g)))

\* GetCurrentBlock has reported 3, the cursor set after a forward batch that
\* followed the startup at a lower head.
C32_Witness ==
    /\ gcb.ret = 3 /\ gcb.pc = "idle"
    /\ block = 3
    /\ task[PollOf(1)].pc = "fwd_select"
    /\ 3 \in StoredBlocks

InBatch(t) == task[t].site = "fwd" \/ task[t].pc = "chk_set"

\* C34: a forward batch, once begun, runs to its end whether or not the
\* context is cancelled meanwhile.  Every step of the task inside a batch
\* keeps the fetched head; a fetch made under a cancelled context fails and
\* files nothing; a returned processBlock is followed by the next block of
\* the batch, or after the last one by the step that sets the cursor to the
\* fetched head, and only then is the task back at the select that observes
\* cancellation.  Under fair scheduling a batch begun reaches that step.
C34_BatchCompletesAfterCancel ==
    /\ [][\A t \in PollTasks :
            (InBatch(t) /\ task'[t] # task[t]) =>
               LET p == task[t]
                   q == task'[t]
               IN  /\ q.pc \notin {"defer_lock", "defer_clear", "defer_done", "exited"}
                   /\ p.pc # "chk_set" => (q.latest = p.latest /\ block' = block)
                   /\ (p.pc = "pb_fetch" /\ CtxOf(t) \in cancelled) =>
                         (q.pc = "pb_ret" /\ q.res = "err" /\ txs' = txs)
                   /\ (p.pc = "pb_ret" /\ p.i < p.latest) =>
                         (q.pc = "pb_fetch" /\ q.num = p.i + 1 /\ q.site = "fwd")
                   /\ (p.pc = "pb_ret" /\ p.i >= p.latest) => q.pc = "chk_set"
                   /\ p.pc = "chk_set" =>
                         (block' = p.latest /\ q.pc = "fwd_select"
                            /\ p.batch = Ascending(block, p.latest))]_vars
    /\ \A t \in PollTasks : \A head \in BlockNumbers :
          (task[t].site = "fwd" /\ task[t].latest = head)
             ~> (task[t].pc = "chk_set" /\ task[t].latest = head)

\* The context was cancelled inside the batch of the blocks 1 and 2: block 1
\* had been filed, the fetch of block 2 failed, and the task is at the step
\* that sets the cursor to 2.
C34_Witness ==
    \E t \in PollTasks :
        /\ CtxOf(t) \in cancelled
        /\ task[t].pc = "chk_set"
        /\ task[t].batch = <<1, 2>>
        /\ task[t].latest = 2
        /\ 2 \in fwdFailed /\ 1 \notin fwdFailed
        /\ block = 0

(***************************************************************************)
(* Block order without the backward scan (specification SpecRun).          *)
(***************************************************************************)
\* The block numbers of list l never decrease along the list.
NonDecreasingBlocks(l) ==
    \A i, j \in 1..Len(l) : i < j => l[i].Block <= l[j].Block

\* C35: in a single run of a scanner with the backward scan disabled, the
\* block numbers of the records of every address's list never decrease
\* along the list.
C35_BlockOrderForwardOnly ==
    ~backwardScanEnabled => \A a \in Addrs : NonDecreasingBlocks(txs[a])

\* With the backward scan disabled, the list of B holds the record of block
\* 1 followed by the two records of the transfer of B to itself in block 2.
C35_Witness ==
    /\ ~backwardScanEnabled
    /\ Len(txs["B"]) = 3
    /\ txs["B"][1].Block = 1
    /\ txs["B"][2].Block = 2 /\ txs["B"][3].Block = 2


\* What the scanner does with a head answer among `heads` if it stands for
\* head 0.  A tick answered so begins no block and leaves the cursor and the
\* task as they were; a startup answered so begins processBlock(0); a startup
\* whose head is 0 sets the cursor to 0, and hands the backward scan an empty
\* range, in which it begins no block.
TreatedAsHeadZero(heads) ==
    /\ \A t \in PollTasks : \A blockHex \in heads :
         /\ CheckForNewBlocksAnswered(t, blockHex) =>
               (block' = block /\ task' = task)
         /\ PollInitAnswered(t, blockHex) =>
               /\ task'[t].pc = "pb_fetch" /\ task'[t].site = "init"
               /\ task'[t].num = 0 /\ task'[t].latest = 0
    /\ \A t \in PollTasks :
         /\ (task[t].pc = "pb_ret" /\ task[t].site = "init" /\ task[t].latest = 0
             /\ task'[t].pc = "spawn") => block' = 0
         /\ (task[t].pc = "spawn" /\ task[t].latest = 0 /\ backwardScanEnabled
             /\ task'[t].pc = "fwd_select") =>
               task'[BackOf(t[2])].i < task'[BackOf(t[2])].stopAt
    /\ \A t \in BackTasks :
         (task[t].pc = "loop" /\ task[t].latest = 0) => task'[t].pc # "pb_fetch"

\* The unparsable answers that are a run of hex digits: their value does not
\* fit the integer type.
HeadsOutOfRange ==
    {blockHex \in UnparsableHeads :
        TrimPrefix0x(blockHex) # <<>> /\ AllHex(TrimPrefix0x(blockHex))}

\* C36, as stated: a head response that cannot be parsed is treated as head
\* 0: a forward tick answered with it processes no block and leaves the
\* cursor unchanged; at startup the scanner processes block 0, sets the
\* cursor to 0, and the backward scan covers no block.
C36_UnparsableHeadIsZero == [][TreatedAsHeadZero(UnparsableHeads)]_vars

\* The same for the answers ParseInt rejects for their syntax (the empty
\* string, the bare prefix, a character that is no hex digit).
C36_SyntaxErrorHeadIsZero ==
    [][TreatedAsHeadZero(UnparsableHeads \ HeadsOutOfRange)]_vars

\* A tick has been answered with a head that does not fit the integer type:
\* the batch runs from the block after the cursor towards the largest integer.
C36_OutOfRangeBatch ==
    \E t \in PollTasks :
        /\ task[t].site = "fwd" /\ task[t].latest = IntCutoff - 1
        /\ block = 2 /\ task[t].num = 3


\* The records of block n in the list of address a, as (hash, inbound) pairs
\* in list order.
RECURSIVE RecordsOfBlock(_, _)
RecordsOfBlock(l, n) ==
    IF l = <<>> THEN <<>>
    ELSE (IF Head(l).Block = n THEN <<<<Head(l).Hash, Head(l).Inbound>>>> ELSE <<>>)
         \o RecordsOfBlock(Tail(l), n)

\* The records of address a in a block, in the block's transaction order,
\* the record of the sender before that of the receiver.
RECURSIVE InTransactionOrder(_, _)
InTransactionOrder(blk, a) ==
    IF blk = <<>> THEN <<>>
    ELSE (IF Head(blk).From = a THEN <<<<Head(blk).Hash, FALSE>>>> ELSE <<>>)
         \o (IF Head(blk).To = a THEN <<<<Head(blk).Hash, TRUE>>>> ELSE <<>>)
         \o InTransactionOrder(Tail(blk), a)

SelfTransfers(blk) == {k \in 1..Len(blk) : blk[k].From = blk[k].To}

\* C37: when processBlock has returned nil for a block, a transaction of the
\* block whose from and to are one address has both its records in that
\* address's list, the one with inbound=false before the one with
\* inbound=true; and the records of the block in every address's list are
\* those of the block's transactions in the block's order (while the block
\* is being processed, a beginning of them).
C37_RecordsInTransactionOrder ==
    /\ \A t \in Tasks :
         (task[t].pc = "pb_ret" /\ task[t].res = "ok") =>
            /\ \A k \in SelfTransfers(task[t].blk) :
                 LET a == task[t].blk[k].From
                     h == task[t].blk[k].Hash
                 IN  \E i, j \in 1..Len(txs[a]) :
                        /\ i < j
                        /\ txs[a][i].Hash = h /\ txs[a][i].Block = task[t].num
                        /\ ~txs[a][i].Inbound
                        /\ txs[a][j].Hash = h /\ txs[a][j].Block = task[t].num
                        /\ txs[a][j].Inbound
            /\ \A a \in Addrs :
                 RecordsOfBlock(txs[a], task[t].num) =
                    InTransactionOrder(task[t].blk, a)
    /\ \A a \in Addrs : \A n \in BlockNumbers :
         IsPrefix(RecordsOfBlock(txs[a], n), InTransactionOrder(Chain(n), a))

\* The forward poll has processed block 2, with the transfer of B to itself,
\* and block 3, whose two transactions both touch A and B, while the
\* backward scan filed block 1.
C37_Witness ==
    /\ \E t \in PollTasks :
         /\ task[t].pc = "pb_ret" /\ task[t].res = "ok" /\ task[t].num = 3
         /\ task[t].site = "fwd"
    /\ RecordsOfBlock(txs["B"], 2) = <<<<"h2", FALSE>>, <<"h2", TRUE>>>>
    /\ RecordsOfBlock(txs["B"], 3) = <<<<"h4", TRUE>>, <<"h5", FALSE>>>>
    /\ RecordsOfBlock(txs["A"], 3) = <<<<"h4", FALSE>>, <<"h5", TRUE>>>>
    /\ RecordsOfBlock(txs["B"], 1) = <<<<"h1", TRUE>>>>


\* C38: decodeHex strips the 0x prefix and returns the first byte of the
\* decoded input.  The empty input, with or without the prefix, and an input
\* with a character that is no hex digit give an error with value 0, and
\* nothing else does; an input of odd length is decoded as if a zero nibble
\* stood in front of it; every result without an error is in 0..255.
C38_DecodeHexFirstByte ==
    codec.fns = <<"decodeHex">> =>
       LET trimmed == TrimPrefix0x(codec.inStr)
       IN  /\ codec.err <=> (trimmed = <<>> \/ ~AllHex(trimmed))
           /\ codec.err => codec.num = 0
           /\ ~codec.err => codec.num \in 0..255
           /\ (~codec.err /\ Len(trimmed) % 2 = 0) =>
                 codec.num = HexVal(trimmed[1]) * 16 + HexVal(trimmed[2])
           /\ (~codec.err /\ Len(trimmed) % 2 = 1) =>
                 codec.num = HexVal(trimmed[1])

\* decodeHex("0xF1a"), three digits behind the prefix, has returned 15, the
\* byte 0f of the padded 0f1a.
C38_Witness ==
    /\ codec.fns = <<"decodeHex">>
    /\ codec.inStr = <<"0", "x", "F", "1", "a">>
    /\ codec.num = 15 /\ ~codec.err

====
